---- MODULE Spec2Model ----
(***************************************************************************)
(* Verification model of the OceanDataProcessing decode -> convert ->      *)
(* correct -> bin pipeline (SBEReader.py, SBE9PlusReader.py,               *)
(* ConvertScreen.py, qaqc.py, UCTDReader.py, BinScreen.py).                *)
(*                                                                         *)
(* Eleven specifications share this module:                                *)
(*   SpecSchema : SBE9plusReader construction from an xmlcon sensor array  *)
(*                and convert_raw_to_engr_units on one raw sample.         *)
(*   SpecConv   : ConvertWorker.run over a batch of casts with the shared  *)
(*                SbeReader (read_source_files, _get_model,                *)
(*                convert_hex_to_csv).                                     *)
(*   SpecQaqc   : the qaqc.py correction stages applied to a cast.         *)
(*   SpecLoop   : correct_loop_edit on the velocities of a cast.           *)
(*   SpecBin    : set_downcast and bin_depths on a cast.                   *)
(*   SpecWorkers: ConvertWorker.run of the mobile application with a       *)
(*                UctdReader, and BinWorker.run, over a batch of files.    *)
(*   SpecCast   : one hex cast read and converted by a new SbeReader.      *)
(*   SpecThread : the QThread of ConvertScreen / BinScreen and the workers *)
(*                connected to its started signal.                         *)
(*   SpecCndr   : the refinement loop of sw_cndr for one row.              *)
(*   SpecThermal: correct_thermal_mass on the rows of a cast.              *)
(*   SpecVolt   : the decoding of one 3-byte voltage field.                *)
(***************************************************************************)
EXTENDS Integers, Sequences, FiniteSets, TLC

VARIABLES
    \* ---- SpecSchema: SBE9plusReader -------------------------------------
    cfg,            \* xmlcon sensor array: cfg[i+1] is the type tag of <Sensor index=i>
    spc,            \* position: "new" | "built" | "converted"
    sensors,        \* self.sensors: sensor name -> index
    hex_struct,     \* self.hex_struct: sequence of hex part keys
    raw_positions,  \* self.raw_positions: name -> position in the raw sample
    engr,           \* last result of convert_raw_to_engr_units (row, or raised)
    engr_in,        \* the arguments of that call
    \* ---- SpecConv: ConvertWorker.run with the shared SbeReader -----------
    reader,         \* the fields of the SbeReader shared by all casts and runs
    source_files,   \* ConvertWorker.source_files: number of files of the batch
    file_no,        \* number of files of the batch already handled by run
    is_running,     \* ConvertWorker.is_running
    cpc,            \* position of run: "idle" | "running" | "done"
    items,          \* status shown per file (fileConverted signals)
    convertStatus,  \* the (status) emitted by convertStatus, None before
    last,           \* what the last loop iteration of run did
    \* ---- SpecQaqc: the correction stages of qaqc.py ----------------------
    df,             \* the cast (DataFrame) handed from stage to stage
    qres,           \* the last stage called, the cast it got, what it returned
    \* ---- SpecLoop: correct_loop_edit on the velocities of a cast ---------
    loop_df,        \* the cast: its dPdt column and where the reversed run starts
    loop_out,       \* the "dPdt invalid" column written by correct_loop_edit
    \* ---- SpecBin: set_downcast and bin_depths on a cast ------------------
    bin_df,         \* the cast handed to bin_depths
    bin_args,       \* the bin_size and average arguments of the call
    bin_out,        \* what bin_depths returned
    \* ---- SpecWorkers: ConvertWorker.run with a UctdReader ----------------
    u_reader,       \* the fields of the UctdReader shared by all casts
    u_source_files, \* ConvertWorker.source_files: number of files of the batch
    u_file_no,      \* number of files of the batch already handled by run
    u_is_running,   \* ConvertWorker.is_running
    u_pc,           \* position of run: "idle" | "running" | "done"
    u_items,        \* the items emitted by fileConverted, in order
    u_convertStatus,\* the (status) emitted by convertStatus, None before
    u_last,         \* what the last loop iteration of run did
    \* ---- SpecWorkers: BinWorker.run --------------------------------------
    pickle_files,   \* BinWorker.pickle_files: number of files of the batch
    b_args,         \* BinWorker.bin_size and do_average
    b_file_no,      \* number of files of the batch already handled by run
    b_is_running,   \* BinWorker.is_running
    b_pc,           \* position of run: "idle" | "running" | "done"
    b_items,        \* the items emitted by fileBinned, in order
    binStatus,      \* the (status) emitted by binStatus, None before
    b_last,         \* what the last loop iteration of run did
    \* ---- SpecCast: one hex cast read and converted by a new SbeReader ------
    one_cast,       \* the cast file on disk
    one_reader,     \* the fields of the SbeReader
    one_out,        \* what convert_hex_to_csv did, NotCalled before
    \* ---- SpecThread: the worker thread of ConvertScreen / BinScreen --------
    t_workers,      \* the workers created so far: [connected, runs] each
    t_thread,       \* the QThread: "stopped" | "running"
    t_pending,      \* workers whose run the started signal has still to call
    t_current,      \* the worker whose run is executing, 0 for none
    t_status,       \* convertStatus signals emitted and not yet received
    t_exit,         \* quit() was called on the running thread
    \* ---- SpecCndr: the refinement loop of sw_cndr for one row --------------
    c_pc,           \* position: "off" | "loop" | "done"
    c_rx,           \* Rx_loop, in units of 0.0001
    c_prev,         \* previous_rx_loop
    c_dels,         \* dels, in units of 1.0e-10
    c_iloop,        \* iloop
    c_before,       \* the estimate held before the last refinement step
    c_ret,          \* Rx[i], NoRx before the loop has ended
    \* ---- SpecThermal: correct_thermal_mass on one cast ---------------------
    tm_in,          \* the arguments: [alpha, tau, T, gamma]; [none |-> TRUE] when unused
    tm_out,         \* C_corr before C is added, <<>> before the call
    \* ---- SpecVolt: the decoding of one 3-byte voltage field ----------------
    v_bytes,        \* decimal_line[pos .. pos+2], <<>> when unused
    v_line          \* raw_units_line

schemaVars == <<cfg, spc, sensors, hex_struct, raw_positions, engr, engr_in>>

convVars == <<reader, source_files, file_no, is_running, cpc, items,
              convertStatus, last>>

qaqcVars == <<df, qres>>

loopVars == <<loop_df, loop_out>>

binVars == <<bin_df, bin_args, bin_out>>

uctdVars == <<u_reader, u_source_files, u_file_no, u_is_running, u_pc, u_items,
              u_convertStatus, u_last>>

binRunVars == <<pickle_files, b_args, b_file_no, b_is_running, b_pc, b_items,
                binStatus, b_last>>

castVars == <<one_cast, one_reader, one_out>>

threadVars == <<t_workers, t_thread, t_pending, t_current, t_status, t_exit>>

cndrVars == <<c_pc, c_rx, c_prev, c_dels, c_iloop, c_before, c_ret>>

thermalVars == <<tm_in, tm_out>>

voltVars == <<v_bytes, v_line>>

vars == <<schemaVars, convVars, qaqcVars, loopVars, binVars, uctdVars,
          binRunVars, castVars, threadVars, cndrVars, thermalVars, voltVars>>

\* the variables each specification leaves alone
notSchema == <<convVars, qaqcVars, loopVars, binVars, uctdVars, binRunVars,
               castVars, threadVars, cndrVars, thermalVars, voltVars>>
notConv == <<schemaVars, qaqcVars, loopVars, binVars, uctdVars, binRunVars,
             castVars, threadVars, cndrVars, thermalVars, voltVars>>
notQaqc == <<schemaVars, convVars, loopVars, binVars, uctdVars, binRunVars,
             castVars, threadVars, cndrVars, thermalVars, voltVars>>
notLoop == <<schemaVars, convVars, qaqcVars, binVars, uctdVars, binRunVars,
             castVars, threadVars, cndrVars, thermalVars, voltVars>>
notBin == <<schemaVars, convVars, qaqcVars, loopVars, uctdVars, binRunVars,
            castVars, threadVars, cndrVars, thermalVars, voltVars>>
notUctd == <<schemaVars, convVars, qaqcVars, loopVars, binVars, binRunVars,
             castVars, threadVars, cndrVars, thermalVars, voltVars>>
notBinRun == <<schemaVars, convVars, qaqcVars, loopVars, binVars, uctdVars,
               castVars, threadVars, cndrVars, thermalVars, voltVars>>
notCast == <<schemaVars, convVars, qaqcVars, loopVars, binVars, uctdVars,
             binRunVars, threadVars, cndrVars, thermalVars, voltVars>>
notThread == <<schemaVars, convVars, qaqcVars, loopVars, binVars, uctdVars,
               binRunVars, castVars, cndrVars, thermalVars, voltVars>>
notCndr == <<schemaVars, convVars, qaqcVars, loopVars, binVars, uctdVars,
             binRunVars, castVars, threadVars, thermalVars, voltVars>>
notThermal == <<schemaVars, convVars, qaqcVars, loopVars, binVars, uctdVars,
                binRunVars, castVars, threadVars, cndrVars, voltVars>>
notVolt == <<schemaVars, convVars, qaqcVars, loopVars, binVars, uctdVars,
             binRunVars, castVars, threadVars, cndrVars, thermalVars>>

None == "None"

\* voltage_sensor_start = None
NoStart == -1

(***************************************************************************)
(* Small helpers                                                           *)
(***************************************************************************)
Range(f) == {f[x] : x \in DOMAIN f}

RECURSIVE SumBytes(_, _)
SumBytes(s, w) == IF s = <<>> THEN 0 ELSE w[Head(s)] + SumBytes(Tail(s), w)

(***************************************************************************)
(* The xmlcon sensor array                                                 *)
(***************************************************************************)
\* The sensor slots of the documented SBE9plus line (class docstring):
\* five frequency channels, then the eight A/D voltage channels.
StdConfig ==
    << "TemperatureSensor", "ConductivitySensor", "PressureSensor",
       "TemperatureSensor", "ConductivitySensor",
       "OxygenSensor", "NotInUse",
       "TurbidityMeter", "FluoroWetlabECO_AFL_FL_Sensor",
       "AltimeterSensor", "NotInUse",
       "OxygenSensor", "NotInUse" >>

\* Configurations: a prefix of the documented array (SensorArray Size = n)
\* in which any subset of slots is marked NotInUse.
Configs ==
    { [i \in 1..n |-> IF i \in S THEN "NotInUse" ELSE StdConfig[i]] :
        n \in 0..Len(StdConfig), S \in SUBSET (1..Len(StdConfig)) }

\* sensor_dict["type"].replace("Sensor", "")
SensorName(type) ==
    CASE type = "TemperatureSensor"  -> "Temperature"
      [] type = "ConductivitySensor" -> "Conductivity"
      [] type = "PressureSensor"     -> "Pressure"
      [] type = "OxygenSensor"       -> "Oxygen"
      [] type = "AltimeterSensor"    -> "Altimeter"
      [] type = "TurbidityMeter"     -> "TurbidityMeter"
      [] type = "FluoroWetlabECO_AFL_FL_Sensor" -> "FluoroWetlabECO_AFL_FL_"
      [] OTHER -> type

\* "Secondary" + name
SecondaryName(name) ==
    CASE name = "Temperature"  -> "SecondaryTemperature"
      [] name = "Conductivity" -> "SecondaryConductivity"
      [] name = "Pressure"     -> "SecondaryPressure"
      [] name = "Oxygen"       -> "SecondaryOxygen"
      [] name = "Altimeter"    -> "SecondaryAltimeter"
      [] name = "TurbidityMeter" -> "SecondaryTurbidityMeter"
      [] OTHER -> "SecondaryFluoroWetlabECO_AFL_FL_"

\* f"NotInUse{not_in_use_count}"
NotInUseName(k) ==
    << "NotInUse0", "NotInUse1", "NotInUse2", "NotInUse3", "NotInUse4",
       "NotInUse5", "NotInUse6", "NotInUse7", "NotInUse8", "NotInUse9",
       "NotInUse10", "NotInUse11", "NotInUse12", "NotInUse13" >>[k + 1]

NotInUseNames == {NotInUseName(k) : k \in 0..13}

\* dict assignment d[k] = v
Put(d, k, v) == [x \in DOMAIN d \cup {k} |-> IF x = k THEN v ELSE d[x]]

EmptyDict == [x \in {} |-> 0]

\* _get_xmlcon_structure: the loop over root.iter("Sensor"), in document
\* order; i is the 1-based slot, the sensor's index attribute is i - 1.
RECURSIVE XmlconLoop(_, _, _, _)
XmlconLoop(c, i, acc, not_in_use_count) ==
    IF i > Len(c) THEN acc
    ELSE LET index == i - 1
             name  == SensorName(c[i])
         IN  IF c[i] # "NotInUse"
             THEN IF name \in DOMAIN acc /\ index > 2
                  THEN XmlconLoop(c, i + 1, Put(acc, SecondaryName(name), index),
                                  not_in_use_count)
                  ELSE XmlconLoop(c, i + 1, Put(acc, name, index), not_in_use_count)
             ELSE XmlconLoop(c, i + 1, Put(acc, NotInUseName(not_in_use_count), index),
                             not_in_use_count + 1)

get_xmlcon_structure(c) == XmlconLoop(c, 1, EmptyDict, 0)

\* instrument["SensorArraySize"]
SensorArraySize(c) == Len(c)

(***************************************************************************)
(* _get_hex_parts                                                          *)
(***************************************************************************)
FreqParts == {"Temperature", "Conductivity", "Pressure",
              "SecondaryTemperature", "SecondaryConductivity"}

VoltageParts == {"Voltage Channels 0-1", "Voltage Channels 2-3",
                 "Voltage Channels 4-5", "Voltage Channels 6-7"}

\* parts with type "latlon" or "other", in insertion order
TailParts == << "NMEA Latitude", "NMEA Longitude",
                "NMEA Latitude/Longitude Parameters",
                "8MSB Pressure Sensor Temp Comp",
                "Pressure Temp Comp", "Modulo Count" >>

HexPartKeys == FreqParts \cup VoltageParts \cup Range(TailParts)

\* parts[key]["bytes"]
HexPartBytes ==
    [k \in HexPartKeys |->
        IF k \in FreqParts \cup VoltageParts \cup {"NMEA Latitude", "NMEA Longitude"}
        THEN 3 ELSE 1]

\* parts[key]["channels"]
HexPartChannels ==
    [k \in VoltageParts |->
        CASE k = "Voltage Channels 0-1" -> {0, 1}
          [] k = "Voltage Channels 2-3" -> {2, 3}
          [] k = "Voltage Channels 4-5" -> {4, 5}
          [] OTHER -> {6, 7}]

\* sorted(self.sensors, key=index): the names in increasing index
RECURSIVE SortedByIndex(_, _)
SortedByIndex(s, names) ==
    IF names = {} THEN <<>>
    ELSE LET m == CHOOSE a \in names : \A b \in names : s[a] <= s[b]
         IN  <<m>> \o SortedByIndex(s, names \ {m})

\* _get_hex_structure: the loop over sensor_list.  st is the record
\* [parser, voltage_sensor_start, raw_positions].
RECURSIVE HexStructLoop(_, _, _, _)
HexStructLoop(s, size, list, st) ==
    IF list = <<>> THEN st
    ELSE LET sensor == Head(list)
             pos1   == Put(st.raw_positions, sensor, s[sensor])
         IN  IF sensor \in HexPartKeys
             THEN HexStructLoop(s, size, Tail(list),
                    [st EXCEPT !.parser = Append(@, sensor), !.raw_positions = pos1])
             ELSE IF s[sensor] < size
                  THEN LET vstart  == IF st.voltage_sensor_start = NoStart
                                      THEN Len(st.parser)
                                      ELSE st.voltage_sensor_start
                           channel == s[sensor] - vstart
                           parts_key == {k \in VoltageParts : channel \in HexPartChannels[k]}
                           parser1 ==
                               IF Cardinality(parts_key) = 1
                               THEN LET k == CHOOSE x \in parts_key : TRUE
                                    IN  IF k \notin Range(st.parser)
                                        THEN Append(st.parser, k) ELSE st.parser
                               ELSE st.parser
                       IN  HexStructLoop(s, size, Tail(list),
                              [parser |-> parser1, voltage_sensor_start |-> vstart,
                               raw_positions |-> pos1])
                  ELSE HexStructLoop(s, size, Tail(list),
                         [st EXCEPT !.raw_positions = pos1])

\* the trailing loop of _get_hex_structure over the latlon / other parts
RECURSIVE TailLoop(_, _, _)
TailLoop(parts, st, raw_pos) ==
    IF parts = <<>> THEN st
    ELSE TailLoop(Tail(parts),
                  [st EXCEPT !.parser = Append(@, Head(parts)),
                             !.raw_positions = Put(@, Head(parts), raw_pos)],
                  raw_pos + 1)

get_hex_structure(s, size) ==
    TailLoop(TailParts,
             HexStructLoop(s, size, SortedByIndex(s, DOMAIN s),
                           [parser |-> <<>>, voltage_sensor_start |-> NoStart,
                            raw_positions |-> EmptyDict]),
             size)

\* total byte width of a schema
SchemaWidth(struct) == SumBytes(struct, HexPartBytes)

(***************************************************************************)
(* Decoding one hex line (the body of the loop of convert_hex_to_csv)      *)
(***************************************************************************)
\* The two values a voltage field appends, named by A/D channel.
VoltageTags(k) ==
    CASE k = "Voltage Channels 0-1" -> <<"V0", "V1">>
      [] k = "Voltage Channels 2-3" -> <<"V2", "V3">>
      [] k = "Voltage Channels 4-5" -> <<"V4", "V5">>
      [] OTHER -> <<"V6", "V7">>

DecodeError == <<"IndexError">>

\* The loop "for key in self._parser.hex_struct" on a decimal_line of
\* nbytes values.  Every part reads decimal_line[pos .. pos + bytes - 1];
\* the result is the raw_units_line (one tag per appended value), or
\* DecodeError when an index is out of range.
RECURSIVE DecodeLoop(_, _, _, _)
DecodeLoop(struct, nbytes, pos, raw_units_line) ==
    IF struct = <<>> THEN raw_units_line
    ELSE LET key == Head(struct)
             num_bytes == HexPartBytes[key]
             next(line) == DecodeLoop(Tail(struct), nbytes, pos + num_bytes, line)
         IN  IF pos + num_bytes - 1 >= nbytes THEN DecodeError
             ELSE IF key \in VoltageParts
                  THEN next(raw_units_line \o VoltageTags(key))
             ELSE IF key = "NMEA Latitude/Longitude Parameters"
                  THEN IF Len(raw_units_line) < 2 THEN DecodeError
                       ELSE next(Append(raw_units_line, key))
             ELSE IF key = "Pressure Temp Comp"
                  THEN IF Len(raw_units_line) < 1 THEN DecodeError
                       ELSE next(Append(raw_units_line, key))
             ELSE next(Append(raw_units_line, key))

DecodeLine(struct, nbytes) == DecodeLoop(struct, nbytes, 0, <<>>)

(***************************************************************************)
(* convert_raw_to_engr_units                                               *)
(***************************************************************************)
\* A raw sample is [vals |-> raw_units_line, scan |-> n]: the scan number
\* is the last element of the python list.
RawLen(raw) == Len(raw.vals) + 1

\* raw_data[k] is defined
InRange(raw, k) == k >= 0 /\ k < RawLen(raw)

\* raw_data[k]
RawAt(raw, k) == IF k < Len(raw.vals) THEN raw.vals[k + 1] ELSE "Scan #"

\* values that are python floats (frequencies, voltages, latitude, longitude)
FloatTags == FreqParts \cup {"V0", "V1", "V2", "V3", "V4", "V5", "V6", "V7"}
             \cup {"NMEA Latitude", "NMEA Longitude", "float"}

\* values an equation can compute with (the 8MSB value is a str)
IsNumber(tag) == tag # "8MSB Pressure Sensor Temp Comp"

\* the read raw_data[pos[name]] inside a try block: the value, or None when
\* the sensor is not configured or the read raises
TryRead(pos, raw, name) ==
    IF name \in DOMAIN pos /\ InRange(raw, pos[name]) /\ IsNumber(RawAt(raw, pos[name]))
    THEN RawAt(raw, pos[name]) ELSE None

RoundFloat(v) == IF v \in FloatTags THEN v ELSE None

Raised == [raised |-> TRUE]

convert_raw_to_engr_units(pos, raw_data, previous_data, latitude, longitude) ==
    LET readLat == latitude = None /\ "NMEA Latitude" \in DOMAIN pos
        readLon == longitude = None /\ "NMEA Longitude" \in DOMAIN pos
        lat == IF readLat THEN RawAt(raw_data, pos["NMEA Latitude"]) ELSE latitude
        lon == IF readLon THEN RawAt(raw_data, pos["NMEA Longitude"]) ELSE longitude
        pt_comp  == TryRead(pos, raw_data, "Pressure Temp Comp")
        f_p      == TryRead(pos, raw_data, "Pressure")
        pressure == IF f_p # None /\ pt_comp # None THEN f_p ELSE None
        depth    == IF pressure # None /\ lat # None /\ IsNumber(lat)
                    THEN "float" ELSE None
        temperature == TryRead(pos, raw_data, "Temperature")
        temperature_secondary == TryRead(pos, raw_data, "SecondaryTemperature")
        conductivity ==
            IF temperature # None /\ pressure # None
            THEN TryRead(pos, raw_data, "Conductivity") ELSE None
        conductivity_secondary ==
            IF temperature_secondary # None /\ pressure # None
            THEN TryRead(pos, raw_data, "SecondaryConductivity") ELSE None
        salinity ==
            IF conductivity # None /\ temperature # None /\ pressure # None
            THEN "float" ELSE None
        salinity_secondary ==
            IF conductivity_secondary # None /\ temperature_secondary # None
               /\ pressure # None
            THEN "float" ELSE None
        sound_velocity ==
            IF salinity # None /\ temperature # None /\ pressure # None
            THEN "float" ELSE None
        oxygen(name) ==
            IF salinity # None /\ temperature # None /\ pressure # None
               /\ name \in DOMAIN pos
               /\ (previous_data # <<>> =>
                       InRange(previous_data[1], pos[name]))
            THEN TryRead(pos, raw_data, name) ELSE None
        turbidity    == TryRead(pos, raw_data, "TurbidityMeter")
        fluorescence == TryRead(pos, raw_data, "FluoroWetlabECO_AFL_FL_")
        altimeter    == TryRead(pos, raw_data, "Altimeter")
    IN  IF (readLat /\ ~InRange(raw_data, pos["NMEA Latitude"]))
           \/ (readLon /\ ~InRange(raw_data, pos["NMEA Longitude"]))
        THEN Raised        \* IndexError outside any try block
        ELSE IF altimeter = None
        THEN Raised        \* altimeter_height was never bound
        ELSE [raised |-> FALSE,
              row |-> [scan |-> raw_data.scan,
                       depth |-> depth,
                       pressure |-> pressure,
                       temperature |-> temperature,
                       salinity |-> salinity,
                       temperature_secondary |-> temperature_secondary,
                       salinity_secondary |-> salinity_secondary,
                       conductivity |-> conductivity,
                       conductivity_secondary |-> conductivity_secondary,
                       sound_velocity_cm |-> sound_velocity,
                       sound_velocity_d |-> sound_velocity,
                       sound_velocity_w |-> sound_velocity,
                       oxygen_primary |-> oxygen("Oxygen"),
                       oxygen_secondary |-> oxygen("SecondaryOxygen"),
                       fluorescence |-> fluorescence,
                       turbidity |-> turbidity,
                       altimeter_height |-> altimeter,
                       latitude |-> RoundFloat(lat),
                       longitude |-> RoundFloat(lon)]]

(***************************************************************************)
(* SpecSchema: build a reader from a configuration, convert one sample     *)
(***************************************************************************)
SchemaIdle ==
    /\ cfg = <<>>
    /\ spc = "idle"
    /\ sensors = EmptyDict
    /\ hex_struct = <<>>
    /\ raw_positions = EmptyDict
    /\ engr = None
    /\ engr_in = None

InitSchema ==
    /\ cfg \in Configs
    /\ spc = "new"
    /\ sensors = EmptyDict
    /\ hex_struct = <<>>
    /\ raw_positions = EmptyDict
    /\ engr = None
    /\ engr_in = None

\* SBE9plusReader.__init__ with a parseable raw_xmlcon
Construct ==
    /\ spc = "new"
    /\ LET s  == get_xmlcon_structure(cfg)
           st == get_hex_structure(s, SensorArraySize(cfg))
       IN  /\ sensors' = s
           /\ hex_struct' = st.parser
           /\ raw_positions' = st.raw_positions
    /\ spc' = "built"
    /\ UNCHANGED <<cfg, engr, engr_in>>
    /\ UNCHANGED notSchema

\* One call of convert_raw_to_engr_units on the raw sample decoded from a
\* line that holds all bytes of the schema; latitude / longitude are the
\* reader's fixed position (None when the header and support file give none).
ConvertSample ==
    /\ spc = "built"
    /\ \E latitude \in {None, "float"}, longitude \in {None, "float"},
          has_prev \in BOOLEAN :
         LET vals == DecodeLine(hex_struct, SchemaWidth(hex_struct))
             raw  == [vals |-> vals, scan |-> 2]
             prev == IF has_prev THEN << [vals |-> vals, scan |-> 1] >> ELSE <<>>
         IN  /\ vals # DecodeError
             /\ engr' = convert_raw_to_engr_units(raw_positions, raw, prev,
                                                  latitude, longitude)
             /\ engr_in' = [latitude |-> latitude, longitude |-> longitude,
                            has_prev |-> has_prev]
    /\ spc' = "converted"
    /\ UNCHANGED <<cfg, sensors, hex_struct, raw_positions>>
    /\ UNCHANGED notSchema

NextSchema == Construct \/ ConvertSample



\* per-line byte count of an SBE 9plus data line (class docstring, "Total")
LineBytes == 37

(***************************************************************************)
(* Cast files given to ConvertWorker.run                                   *)
(***************************************************************************)
MaxLines == 2       \* data lines per cast file
MaxFiles == 2       \* files per batch

\* a data line: its number of hex characters, and whether all are hex digits
LineKinds ==
    { [chars |-> 2 * LineBytes,     hex |-> TRUE],      \* a full line
      [chars |-> 2 * LineBytes - 2, hex |-> TRUE],      \* last byte cut off
      [chars |-> 2 * LineBytes - 1, hex |-> TRUE],      \* last hex digit cut off
      [chars |-> 2 * LineBytes + 2, hex |-> TRUE],      \* one byte too many
      [chars |-> 2 * LineBytes,     hex |-> FALSE] }    \* holds a non-hex character

SeqsUpTo(S, n) == UNION { [1..k -> S] : k \in 0..n }

\* One cast as found on disk: the data file (header of hdr lines ending
\* with *END*, then the data lines, with or without a final newline), the
\* instrument named in its header, its start time, and its xmlcon file
\* with or without an Altimeter sensor.
FullLine == [chars |-> 2 * LineBytes, hex |-> TRUE]

GoodCast(lines, newline) ==
    [ data_exists |-> TRUE, hdr |-> 1, lines |-> lines, newline |-> newline,
      model |-> "SBE9plus", has_start |-> TRUE, xmlcon |-> "ok",
      altimeter |-> TRUE ]

\* The casts tried: a well-formed cast with any data lines; a cast whose
\* xmlcon file is missing, with any data lines; one-line casts with every
\* combination of header and xmlcon defects; and a missing data file.
CastFiles ==
    { GoodCast(l, nl) : l \in SeqsUpTo(LineKinds, MaxLines), nl \in BOOLEAN }
    \cup
    { [GoodCast(l, TRUE) EXCEPT !.xmlcon = "missing", !.hdr = h, !.model = m] :
        l \in SeqsUpTo(LineKinds, MaxLines), h \in {1, 2},
        m \in {"SBE9plus", "none"} }
    \cup
    { [GoodCast(<<FullLine>>, TRUE) EXCEPT !.xmlcon = x, !.model = m,
                                           !.has_start = s, !.altimeter = a,
                                           !.hdr = h] :
        x \in {"ok", "unparseable"}, m \in {"SBE9plus", "SBE19plusV2", "none"},
        s \in BOOLEAN, a \in BOOLEAN, h \in {1, 2} }
    \cup
    { [GoodCast(<<>>, TRUE) EXCEPT !.data_exists = FALSE] }

\* the sensor array of the cast's xmlcon
CastConfig(f) ==
    IF f.altimeter THEN StdConfig
    ELSE [i \in 1..Len(StdConfig) |->
             IF StdConfig[i] = "AltimeterSensor" THEN "NotInUse" ELSE StdConfig[i]]

\* len(self._raw_data.splitlines())
NumLines(f) == f.hdr + Len(f.lines)

\* sum(bl.count("\n") for bl in self.blocks(f))
CountNewlines(f) == IF f.newline THEN NumLines(f) ELSE NumLines(f) - 1

(***************************************************************************)
(* SbeReader                                                               *)
(***************************************************************************)
NoFile == [none |-> TRUE]

\* SbeReader.__init__
NewReader ==
    [ data_file |-> 0, raw_data |-> NoFile, raw_xmlcon |-> None,
      line_count |-> 0, data_start |-> 0,
      model |-> None, parser |-> NoFile,
      start_date_time |-> None, sampling_frequency |-> 0 ]

\* the schema of each cast configuration, as SBE9plusReader.__init__ builds it
CastSchema ==
    [a \in BOOLEAN |->
        LET c == CastConfig([altimeter |-> a])
        IN  get_hex_structure(get_xmlcon_structure(c), SensorArraySize(c))]

\* SBE9plusReader(**kwargs) built from the xmlcon of file number n
NewParser(n, f) ==
    [none |-> FALSE, xmlcon_of |-> n,
     hex_struct |-> CastSchema[f.altimeter].parser,
     raw_positions |-> CastSchema[f.altimeter].raw_positions]

\* _get_model.  Result: [raised, reader].
get_model(r, n, f) ==
    LET r1 == [r EXCEPT !.start_date_time = None]
        r2 == [r1 EXCEPT !.data_start = f.hdr,
                         !.start_date_time = IF f.has_start THEN "start" ELSE None]
    IN  IF f.model = "SBE19plusV2"
        THEN [raised |-> TRUE, reader |-> r1]     \* SBE19plusV2_Parser is not defined
        ELSE IF f.model = "SBE9plus" /\ f.xmlcon = "unparseable"
        THEN [raised |-> TRUE, reader |-> r1]     \* etree.fromstring raises
        ELSE IF f.model = "SBE9plus"
        THEN [raised |-> FALSE,
              reader |-> [r2 EXCEPT !.model = "SBE9plus",
                                    !.parser = NewParser(n, f),
                                    !.sampling_frequency = 24]]
        ELSE [raised |-> FALSE,
              reader |-> [r2 EXCEPT !.model = None,
                                    !.parser = NoFile,
                                    !.sampling_frequency = 24]]

\* read_source_files(data_type="hex", data_file=file n, ...).
\* Result: [raised, reader].
read_source_files(r, n, f) ==
    LET r1 == [r EXCEPT !.data_file = n]
        r2 == [r1 EXCEPT !.line_count = CountNewlines(f),
                         !.raw_data = [none |-> FALSE, file |-> n, hdr |-> f.hdr,
                                       lines |-> f.lines]]
    IN  IF ~f.data_exists
        THEN [raised |-> FALSE, reader |-> r1]
        ELSE IF f.xmlcon = "missing"
        THEN [raised |-> FALSE, reader |-> [r2 EXCEPT !.raw_xmlcon = None]]
        ELSE get_model([r2 EXCEPT !.raw_xmlcon = n], n, f)

(***************************************************************************)
(* convert_hex_to_csv                                                      *)
(***************************************************************************)
\* len(decimal_line): one value per pair of characters, and one more for
\* a single last character
NumBytes(line) == (line.chars + 1) \div 2

\* the loop with a skipped line kept as previous_raw_units_line
RECURSIVE ConvertLoopSkippedAsPrevious(_, _, _, _)
ConvertLoopSkippedAsPrevious(r, i, line_no, acc) ==
    IF i >= r.line_count THEN [raised |-> FALSE, acc |-> acc]
    ELSE IF i < r.raw_data.hdr
    THEN [raised |-> TRUE, acc |-> acc]         \* int() of a header line: ValueError
    ELSE
    LET line == r.raw_data.lines[i - r.raw_data.hdr + 1]
        acc1 == [acc EXCEPT !.decoded = @ + 1]
        vals == DecodeLine(r.parser.hex_struct, NumBytes(line))
        raw_units_line == [vals |-> vals, scan |-> line_no + 1]
        engr_units_line ==
            convert_raw_to_engr_units(r.parser.raw_positions, raw_units_line,
                                      acc.prev, "float", "float")
    IN  IF ~line.hex
        THEN [raised |-> TRUE, acc |-> acc1]    \* int(.., 16): ValueError
        ELSE IF vals = DecodeError
        THEN ConvertLoopSkippedAsPrevious(r, i + 1, line_no + 1,
                 [acc1 EXCEPT !.logged = @ + 1, !.prev = <<raw_units_line>>])
        ELSE IF engr_units_line.raised
        THEN [raised |-> TRUE, acc |-> acc1]
        ELSE IF r.start_date_time = None
        THEN [raised |-> TRUE, acc |-> acc1]    \* None.format(..)
        ELSE ConvertLoopSkippedAsPrevious(r, i + 1, line_no + 1,
                 [acc1 EXCEPT !.rows = Append(@, [scan |-> engr_units_line.row.scan,
                                                  tick |-> acc.tick,
                                                  prev |-> acc.prev]),
                              !.tick = @ + 1,
                              !.prev = <<raw_units_line>>])

\* The loop over range(self._data_start, self._line_count).  i is the
\* 0-based index into hex_lines and line_no the enumerate counter; acc is
\* [rows, tick, prev, logged, decoded]: the rows appended to output, the
\* number of time increments applied to current_time, the
\* previous_raw_units_line, the number of lines logged as skipped and the
\* number of lines whose decoding was attempted.  Result: [raised, acc].
RECURSIVE ConvertLoop(_, _, _, _)
ConvertLoop(r, i, line_no, acc) ==
    IF i >= r.line_count THEN [raised |-> FALSE, acc |-> acc]
    ELSE IF i < r.raw_data.hdr
    THEN [raised |-> TRUE, acc |-> acc]         \* int() of a header line: ValueError
    ELSE
    LET line == r.raw_data.lines[i - r.raw_data.hdr + 1]
        acc1 == [acc EXCEPT !.decoded = @ + 1]
        vals == DecodeLine(r.parser.hex_struct, NumBytes(line))
        raw_units_line == [vals |-> vals, scan |-> line_no + 1]
        engr_units_line ==
            convert_raw_to_engr_units(r.parser.raw_positions, raw_units_line,
                                      acc.prev, "float", "float")
    IN  IF ~line.hex
        THEN [raised |-> TRUE, acc |-> acc1]    \* int(.., 16): ValueError
        ELSE IF vals = DecodeError
        THEN ConvertLoop(r, i + 1, line_no + 1, [acc1 EXCEPT !.logged = @ + 1])
        ELSE IF engr_units_line.raised
        THEN [raised |-> TRUE, acc |-> acc1]
        ELSE IF r.start_date_time = None
        THEN [raised |-> TRUE, acc |-> acc1]    \* None.format(..)
        ELSE ConvertLoop(r, i + 1, line_no + 1,
                 [acc1 EXCEPT !.rows = Append(@, [scan |-> engr_units_line.row.scan,
                                                  tick |-> acc.tick,
                                                  prev |-> acc.prev]),
                              !.tick = @ + 1,
                              !.prev = <<raw_units_line>>])

NoRows == [rows |-> <<>>, tick |-> 0, prev |-> <<>>, logged |-> 0, decoded |-> 0]

\* convert_hex_to_csv.  Result: [raised, acc, written]; written is the
\* file whose csv was (over)written, 0 for none.
convert_hex_to_csv(r) ==
    IF r.parser.none \/ r.raw_data.none
    THEN [raised |-> TRUE, acc |-> NoRows, written |-> 0]
    ELSE LET res == ConvertLoop(r, r.data_start, 0, NoRows)
         IN  [raised |-> res.raised, acc |-> res.acc,
              written |-> IF res.raised THEN 0 ELSE r.data_file]

(***************************************************************************)
(* ConvertWorker.run                                                       *)
(***************************************************************************)
ConvIdle ==
    /\ reader = NewReader
    /\ source_files = 0
    /\ file_no = 0
    /\ is_running = TRUE
    /\ cpc = "off"
    /\ items = <<>>
    /\ convertStatus = None
    /\ last = NoFile

InitConv ==
    /\ reader = NewReader
    /\ source_files = 0
    /\ file_no = 0
    /\ is_running = TRUE
    /\ cpc = "idle"
    /\ items = <<>>
    /\ convertStatus = None
    /\ last = NoFile

\* _start_convert_thread: a new ConvertWorker for a batch of n files with
\* the SbeReader of the ConvertScreen; run begins.
StartRun ==
    /\ cpc = "idle"
    /\ \E n \in 1..MaxFiles : source_files' = n
    /\ file_no' = 0
    /\ is_running' = TRUE
    /\ cpc' = "running"
    /\ items' = <<>>
    /\ convertStatus' = None
    /\ last' = NoFile
    /\ UNCHANGED reader
    /\ UNCHANGED notConv

\* ConvertWorker.stop
Stop ==
    /\ cpc = "running"
    /\ is_running
    /\ is_running' = FALSE
    /\ UNCHANGED <<reader, source_files, file_no, cpc, items, convertStatus, last>>
    /\ UNCHANGED notConv

\* One iteration of "for file in self.source_files" for a hex cast found
\* on disk as f; an exception ends run in the except clause.
ConvertFile ==
    /\ cpc = "running"
    /\ is_running
    /\ file_no < source_files
    /\ \E f \in CastFiles :
         LET n    == file_no + 1
             rd   == read_source_files(reader, n, f)
             cv   == convert_hex_to_csv(rd.reader)
             ok   == ~rd.raised /\ ~cv.raised
         IN  /\ reader' = rd.reader
             /\ last' = [none |-> FALSE, file |-> n, cast |-> f,
                         raised |-> ~ok,
                         converted |-> ~rd.raised,
                         acc |-> IF rd.raised THEN NoRows ELSE cv.acc,
                         written |-> IF rd.raised THEN 0 ELSE cv.written,
                         parser_of |-> IF rd.reader.parser.none THEN 0
                                       ELSE rd.reader.parser.xmlcon_of,
                         data_of |-> IF rd.reader.raw_data.none THEN 0
                                     ELSE rd.reader.raw_data.file]
             /\ items' = Append(items, IF ok THEN "Success" ELSE "Processing...")
             /\ file_no' = n
             /\ IF ok
                THEN UNCHANGED <<cpc, convertStatus>>
                ELSE cpc' = "done" /\ convertStatus' = FALSE
    /\ UNCHANGED <<source_files, is_running>>
    /\ UNCHANGED notConv

\* the loop of run ends (all files handled, or stop was called):
\* convertStatus.emit(True, ..)
FinishRun ==
    /\ cpc = "running"
    /\ file_no = source_files \/ ~is_running
    /\ cpc' = "done"
    /\ convertStatus' = TRUE
    /\ UNCHANGED <<reader, source_files, file_no, is_running, items, last>>
    /\ UNCHANGED notConv

NextConv == StartRun \/ Stop \/ ConvertFile \/ FinishRun


(***************************************************************************)
(* Casts handed to the correction stages of qaqc.py                        *)
(***************************************************************************)
MaxRows == 4        \* rows per cast

\* a missing depth (NaN)
NaN == -999

\* depths are counted in steps of 1 / PerMetre metres
PerMetre == 2

\* the depths 0 m, 40 m, 100 m and 250 m
DepthVals == {0, 40 * PerMetre, 100 * PerMetre, 250 * PerMetre}

\* the columns of a converted cast that the stages read
CsvCols == {"Depth (m)", "Pressure (decibar)", "Temperature (degC)",
            "Conductivity (S_per_m)", "Date (YYYY-MM-DD)", "Time (HH:mm:ss)"}

\* A cast: its columns, the depth of each row (the number of rows is
\* Len(depth)), the scan number of each row, and the is_downcast value of
\* each row (empty while the column does not exist).  The row index is
\* the default RangeIndex of a csv that was just read.
Cast(cols, depth) ==
    [none |-> FALSE, cols |-> cols, depth |-> depth,
     scans |-> [k \in DOMAIN depth |-> k], is_downcast |-> <<>>]

\* the caller's df after a stage returned None
NoneCast ==
    [none |-> TRUE, cols |-> {}, depth |-> <<>>, scans |-> <<>>,
     is_downcast |-> <<>>]

\* The casts tried: every depth profile with all columns present, and a
\* few profiles with every subset of the columns.
Casts ==
    { Cast(CsvCols, d) : d \in SeqsUpTo(DepthVals \cup {NaN}, MaxRows) }
    \cup
    { Cast(c, d) : c \in SUBSET CsvCols,
                   d \in {<<>>, <<0>>, <<0, 40>>, <<0, 40, 100, 40>>} }

NumRows(d) == Len(d.depth)

\* what a stage returns
Returned(d) == [kind |-> "df", df |-> d]
ReturnedNone == [kind |-> "None"]
RaisedError == [kind |-> "raised"]

(***************************************************************************)
(* set_downcast                                                            *)
(***************************************************************************)
max_depth_change == 100

\* df['delta_depth'] of row k (NaN for the first row and next to a NaN)
delta_depth(depth, k) ==
    IF k = 1 \/ depth[k] = NaN \/ depth[k - 1] = NaN THEN NaN
    ELSE depth[k] - depth[k - 1]

\* valid_depth_mask with the bounds included
valid_depth_mask_inclusive(depth) ==
    { k \in DOMAIN depth :
        /\ delta_depth(depth, k) # NaN
        /\ -max_depth_change * PerMetre <= delta_depth(depth, k)
        /\ delta_depth(depth, k) <= max_depth_change * PerMetre }

\* valid_depth_mask
valid_depth_mask(depth) ==
    { k \in DOMAIN depth :
        /\ delta_depth(depth, k) # NaN
        /\ -max_depth_change * PerMetre < delta_depth(depth, k)
        /\ delta_depth(depth, k) < max_depth_change * PerMetre }

\* the rows of df_masked that hold df_masked["Depth (m)"].max()
DeepestRows(depth, masked) ==
    { k \in masked : \A j \in masked : depth[j] <= depth[k] }

SetMax(S) == CHOOSE x \in S : \A y \in S : y <= x

set_downcast(d) ==
    IF "Depth (m)" \notin d.cols THEN ReturnedNone
    ELSE LET values == DeepestRows(d.depth, valid_depth_mask(d.depth))
             flags  == IF values # {}
                       THEN [k \in DOMAIN d.depth |->
                                IF k <= SetMax(values) THEN 1 ELSE 0]
                       ELSE [k \in DOMAIN d.depth |-> 1]
         IN  Returned([d EXCEPT !.cols = (@ \cup {"is_downcast"})
                                          \ {"Prior Depth", "delta_depth"},
                                !.is_downcast = flags])

(***************************************************************************)
(* the other stages: the columns they need, add and read                   *)
(***************************************************************************)
set_vertical_velocity(d) ==
    IF ~({"Date (YYYY-MM-DD)", "Time (HH:mm:ss)", "Pressure (decibar)"} \subseteq d.cols)
    THEN Returned(d)
    ELSE IF NumRows(d) < 2 THEN RaisedError     \* df.loc[1, 'dp']: KeyError
    ELSE Returned([d EXCEPT !.cols = @ \cup {"time", "dp", "dt", "dpdt"}])

low_pass_filter_pressure_velocity(d) ==
    IF ~({"dt", "dpdt", "Pressure (decibar)"} \subseteq d.cols)
    THEN Returned(d)
    ELSE IF NumRows(d) < 2 THEN RaisedError     \* df.iloc[1]: IndexError
    ELSE Returned([d EXCEPT !.cols = @ \cup {"dpdt_f", "dPdt"}])

\* called with samp_per=None
low_pass_filter_pressure(d) ==
    IF "Pressure (decibar)" \notin d.cols THEN Returned(d)
    ELSE IF "dt" \notin d.cols THEN Returned(d)
    ELSE IF NumRows(d) < 2 THEN RaisedError
    ELSE Returned(d)

low_pass_filter_temperature_conductivity(d) ==
    IF ~({"dt", "Temperature (degC)", "Conductivity (S_per_m)"} \subseteq d.cols)
    THEN Returned(d)
    ELSE IF NumRows(d) < 2 THEN RaisedError
    ELSE Returned(d)

calculate_temp_lag(d) ==
    IF ~({"dPdt", "Temperature (degC)"} \subseteq d.cols) THEN Returned(d)
    ELSE Returned(d)

correct_viscious_heating(d) ==
    IF ~({"Conductivity (S_per_m)", "Pressure (decibar)", "Temperature (degC)"}
            \subseteq d.cols)
    THEN Returned(d)
    ELSE IF "dPdt" \notin d.cols THEN RaisedError   \* df['dPdt']: KeyError
    ELSE Returned(d)

correct_loop_edit(d) ==
    IF "dPdt" \notin d.cols /\ "dpdt" \notin d.cols THEN Returned(d)
    ELSE Returned([d EXCEPT !.cols = @ \cup {"dPdt", "dPdt invalid", "dPdt_mean"}])

(***************************************************************************)
(* SpecQaqc: stages applied to a cast, each to the result of the last      *)
(***************************************************************************)
QaqcIdle ==
    /\ df = Cast({}, <<>>)
    /\ qres = [stage |-> "off"]

InitQaqc ==
    /\ df \in Casts
    /\ qres = [stage |-> "none"]

\* df = stage(df=df): the caller goes on with what the stage returned.  A
\* stage handed None raises at df.columns; a stage that raises leaves the
\* caller's df as it was.
Call(stage, ret) ==
    LET r == IF df.none THEN RaisedError ELSE ret
    IN  /\ qres' = [stage |-> stage, before |-> df, ret |-> r]
        /\ df' = CASE r.kind = "df" -> r.df
                   [] r.kind = "None" -> NoneCast
                   [] OTHER -> df

SetDowncast ==
    /\ Call("set_downcast", set_downcast(df))
    /\ UNCHANGED notQaqc

SetVerticalVelocity ==
    /\ Call("set_vertical_velocity", set_vertical_velocity(df))
    /\ UNCHANGED notQaqc

LowPassPressureVelocity ==
    /\ Call("low_pass_filter_pressure_velocity",
            low_pass_filter_pressure_velocity(df))
    /\ UNCHANGED notQaqc

LowPassPressure ==
    /\ Call("low_pass_filter_pressure", low_pass_filter_pressure(df))
    /\ UNCHANGED notQaqc

LowPassTemperatureConductivity ==
    /\ Call("low_pass_filter_temperature_conductivity",
            low_pass_filter_temperature_conductivity(df))
    /\ UNCHANGED notQaqc

CalculateTempLag ==
    /\ Call("calculate_temp_lag", calculate_temp_lag(df))
    /\ UNCHANGED notQaqc

CorrectViscousHeating ==
    /\ Call("correct_viscious_heating", correct_viscious_heating(df))
    /\ UNCHANGED notQaqc

CorrectLoopEdit ==
    /\ Call("correct_loop_edit", correct_loop_edit(df))
    /\ UNCHANGED notQaqc

NextQaqc ==
    \/ SetDowncast
    \/ SetVerticalVelocity
    \/ LowPassPressureVelocity
    \/ LowPassPressure
    \/ LowPassTemperatureConductivity
    \/ CalculateTempLag
    \/ CorrectViscousHeating
    \/ CorrectLoopEdit

(***************************************************************************)
(* correct_loop_edit on the values of the dPdt column                      *)
(***************************************************************************)
MaxSamples == 760       \* rows of the longest cast

\* the defaults of correct_loop_edit; the threshold 0.2 in hundredths
window_time == 30
sampling_frequency == 24
threshold_velocity == 20

\* samples in the reversed run
RunLength == 10

\* sum of s[lo..hi]
RECURSIVE SumRange(_, _, _)
SumRange(s, lo, hi) ==
    IF lo > hi THEN 0
    ELSE IF lo = hi THEN s[lo]
    ELSE LET m == (lo + hi) \div 2
         IN  SumRange(s, lo, m) + SumRange(s, m + 1, hi)

\* df["dPdt"].rolling(window=window, center=True): the window of row i
\* is rows i - window \div 2 .. i + (window - 1) \div 2; with fewer than
\* window rows in it the mean is NaN
WindowLo(i, window) == i - window \div 2
WindowHi(i, window) == i + (window - 1) \div 2

HasMean(dPdt, i, window) ==
    WindowLo(i, window) >= 1 /\ WindowHi(i, window) <= Len(dPdt)

\* x["dPdt"] < (1 - threshold_velocity) * x["dPdt_mean"], with the mean
\* written as sum / window; a comparison with NaN is False
loop_edit_invalid(dPdt, wt, sf, threshold) ==
    LET window == wt * sf
    IN  [i \in DOMAIN dPdt |->
            IF HasMean(dPdt, i, window)
            THEN 100 * window * dPdt[i]
                   < (100 - threshold)
                       * SumRange(dPdt, WindowLo(i, window), WindowHi(i, window))
            ELSE FALSE]

\* A descending cast of n samples (dPdt = 1 on every sample) with one run
\* of RunLength samples of reversed velocity (dPdt = -1) from sample st.
DescentWithRun(n, st) ==
    [dPdt |-> [k \in 1..n |-> IF k >= st /\ k < st + RunLength THEN -1 ELSE 1],
     run  |-> st]

LoopLens == {RunLength + 2, MaxSamples - window_time, MaxSamples}

\* where the run starts: near the start of the cast, around the first
\* sample that has a rolling mean, and up to the end of the cast
RunStarts(n) ==
    { st \in 1..(n - RunLength + 1) :
        \/ st <= RunLength + 2
        \/ (st >= 350 /\ st <= 410)
        \/ st >= n - 2 * RunLength }

LoopCasts == { DescentWithRun(n, st) : n \in LoopLens, st \in 1..MaxSamples }

LoopIdle ==
    /\ loop_df = [dPdt |-> <<>>, run |-> 0]
    /\ loop_out = <<>>

InitLoop ==
    /\ loop_df \in { c \in LoopCasts : c.run \in RunStarts(Len(c.dPdt)) }
    /\ loop_out = <<>>

\* correct_loop_edit(df) with its default arguments on a cast with dPdt
LoopEdit ==
    /\ loop_out = <<>>
    /\ loop_out' = loop_edit_invalid(loop_df.dPdt, window_time,
                                     sampling_frequency, threshold_velocity)
    /\ UNCHANGED loop_df
    /\ UNCHANGED notLoop

NextLoop == LoopEdit

(***************************************************************************)
(* bin_depths                                                              *)
(***************************************************************************)
MaxBinRows == 2     \* rows of a cast handed to bin_depths
MaxVDepth == 7      \* deepest V-shaped cast, in depth steps

InvalidCols == {"Temperature (degC) invalid", "Conductivity (S_per_m) invalid",
                "Pressure (decibar) invalid", "dPdt invalid"}

\* the invalid columns bin_depths reads on every call
RequiredInvalidCols == InvalidCols \ {"dPdt invalid"}

\* A cast as bin_depths sees it: the columns it has among those the
\* function looks at, and per row the depth, the invalid columns that are
\* True on the row, and is_downcast.  Row k has the identity k.
BinCast(cols, depth, invalid, is_downcast) ==
    [cols |-> cols, depth |-> depth, invalid |-> invalid,
     is_downcast |-> is_downcast]

\* math.floor of a depth >= 0
Floor(x) == x \div PerMetre

\* df['Depth (m)'].max(): NaN rows are skipped, NaN when there is none
MaxOfDepths(depth) ==
    LET vals == { depth[k] : k \in DOMAIN depth } \ {NaN}
    IN  IF vals = {} THEN NaN ELSE CHOOSE x \in vals : \A y \in vals : y <= x

\* bins that stop at max_depth
BinEdgesToMaxDepth(max_depth, bin_size) ==
    { x \in 0..max_depth : x % bin_size = 0 }

\* bins = [x for x in range(0, max_depth + 2, bin_size)]
BinEdges(max_depth, bin_size) ==
    { x \in 0..(max_depth + 1) : x % bin_size = 0 }

\* labels=bins[:-1]
BinLabels(edges) == { x \in edges : \E y \in edges : y > x }

\* pd.cut(depth, bins, right=False, labels=bins[:-1]) of one depth: the
\* label of the interval [label, label + bin_size) that holds it, NaN for
\* a depth outside every interval
cut(x, edges, bin_size) ==
    LET hit == { l \in BinLabels(edges) :
                   x # NaN /\ l * PerMetre <= x /\ x < (l + bin_size) * PerMetre }
    IN  IF hit = {} THEN NaN ELSE CHOOSE l \in hit : TRUE

\* the rows kept when the mask leaves out "dPdt invalid"
ValidRowsIgnoringVelocity(d) ==
    { k \in DOMAIN d.depth : d.invalid[k] \cap RequiredInvalidCols = {} }

\* the rows kept by df = df[mask]
ValidRows(d) ==
    LET checked == IF "dPdt invalid" \in d.cols THEN InvalidCols
                   ELSE RequiredInvalidCols
    IN  { k \in DOMAIN d.depth : d.invalid[k] \cap checked = {} }

\* the members of a set of numbers in increasing order
RECURSIVE Ascending(_)
Ascending(S) ==
    IF S = {} THEN <<>>
    ELSE LET m == CHOOSE x \in S : \A y \in S : x <= y
         IN  <<m>> \o Ascending(S \ {m})

RECURSIVE Reversed(_)
Reversed(q) == IF q = <<>> THEN <<>> ELSE Append(Reversed(Tail(q)), Head(q))

\* the ascent leg left in increasing order
NotSorted(q) == q

\* df_item.sort_values(by=binned_col_name, ascending=False)
SortedDescending(q) == Reversed(q)

\* One leg with average=True, the rows with no scans kept
LegAveragedWithEmptyBins(d, rows, leg, edges, bin_size) ==
    [i \in 1..Cardinality(BinLabels(edges)) |->
        LET l == Ascending(BinLabels(edges))[i]
            scans == { k \in rows : cut(d.depth[k], edges, bin_size) = l }
        IN  [leg |-> leg, label |-> l, scans |-> scans,
             scans_per_bin |-> Cardinality(scans)]]

\* One leg with average=True: a row per label in increasing order, with
\* the scans of the leg that fall in the label's interval; rows with
\* "Scans per bin" = 0 are dropped.
LegAveraged(d, rows, leg, edges, bin_size) ==
    LET all == [i \in 1..Cardinality(BinLabels(edges)) |->
                  LET l == Ascending(BinLabels(edges))[i]
                      scans == { k \in rows : cut(d.depth[k], edges, bin_size) = l }
                  IN  [leg |-> leg, label |-> l, scans |-> scans,
                       scans_per_bin |-> Cardinality(scans)]]
    IN  SelectSeq(all, LAMBDA b : b.scans_per_bin # 0)

\* One leg with average=False: the rows of the leg in their order, each
\* with its label.
LegRows(d, rows, leg, edges, bin_size) ==
    [i \in 1..Cardinality(rows) |->
        LET k == Ascending(rows)[i]
        IN  [leg |-> leg, label |-> cut(d.depth[k], edges, bin_size), scans |-> {k}]]

\* the ascent leg with average=False sorted by label, largest first, rows
\* without a label last; rows of one label stay in their order
RowsByLabelDescending(q) ==
    SortSeq(q, LAMBDA a, b :
                 \/ (a.label # NaN /\ b.label = NaN)
                 \/ (a.label # NaN /\ b.label # NaN /\ a.label > b.label))

BinnedOutput(bins, average) == [kind |-> "df", bins |-> bins, average |-> average]
BinNone == [kind |-> "None"]
BinRaised == [kind |-> "raised"]

\* The outcomes of bin_depths(df, bin_size, average).  The conversion of
\* the averaged "dt" column back to dates happens on the output frame;
\* on a frame with no rows it either goes through (an empty frame is
\* returned) or raises inside the try block (None is returned).
bin_depths(d, bin_size, average) ==
    IF DOMAIN d.depth = {} THEN {BinNone}
    ELSE IF "Depth (m)" \notin d.cols THEN {BinNone}
    ELSE IF MaxOfDepths(d.depth) = NaN THEN {BinRaised}     \* math.floor(nan)
    ELSE IF ~(RequiredInvalidCols \subseteq d.cols) THEN {BinNone}
    ELSE IF "is_downcast" \notin d.cols THEN {BinNone}
    ELSE LET edges   == BinEdges(Floor(MaxOfDepths(d.depth)), bin_size)
             valid   == ValidRows(d)
             descent == { k \in valid : d.is_downcast[k] = 1 }
             ascent  == valid \ descent
             out == IF average
                    THEN LegAveraged(d, descent, 1, edges, bin_size)
                         \o SortedDescending(LegAveraged(d, ascent, 0, edges, bin_size))
                    ELSE LegRows(d, descent, 1, edges, bin_size)
                         \o RowsByLabelDescending(LegRows(d, ascent, 0, edges, bin_size))
         IN  IF out = <<>> THEN {BinnedOutput(out, average), BinNone}
             ELSE {BinnedOutput(out, average)}

(***************************************************************************)
(* SpecBin: a cast is marked by set_downcast and binned by bin_depths      *)
(***************************************************************************)
\* the columns bin_depths looks at, all present
AllBinCols == {"Depth (m)", "is_downcast"} \cup InvalidCols

\* depths of the rows: 0 m, 0.5 m, 2 m, 7.5 m, or missing
BinDepthVals == {0, 1, 2 * PerMetre, 7 * PerMetre + 1, NaN}

BinSizes == {1, 2, 5}

NotV == [max |-> 0, step |-> 0]

\* Casts with is_downcast already set (1 on the first down rows): every
\* depth profile, one invalid column True on any subset of the rows.
MarkedCasts ==
    { [cast |-> BinCast(AllBinCols, depth,
                        [k \in 1..n |-> IF k \in bad THEN {badcol} ELSE {}],
                        [k \in 1..n |-> IF k <= down THEN 1 ELSE 0]),
       v |-> NotV, marked_by |-> "pickle"] :
        n \in 0..MaxBinRows, depth \in SeqsUpTo(BinDepthVals, MaxBinRows),
        bad \in SUBSET (1..MaxBinRows), badcol \in InvalidCols,
        down \in 0..MaxBinRows }

\* the same without a "dPdt invalid" column, and casts that lack the depth
\* column, is_downcast or an invalid column
CastsLackingColumns ==
    { [cast |-> BinCast(AllBinCols \ {"dPdt invalid"}, depth,
                        [k \in 1..n |-> IF k \in bad THEN {"Temperature (degC) invalid"} ELSE {}],
                        [k \in 1..n |-> IF k <= down THEN 1 ELSE 0]),
       v |-> NotV, marked_by |-> "pickle"] :
        n \in 0..MaxBinRows, depth \in SeqsUpTo(BinDepthVals \ {NaN}, MaxBinRows),
        bad \in SUBSET (1..MaxBinRows), down \in 0..MaxBinRows }
    \cup
    { [cast |-> BinCast(AllBinCols \ {c}, <<0, 1>>, <<{}, {}>>, <<1, 0>>),
       v |-> NotV, marked_by |-> "pickle"] :
        c \in {"Depth (m)", "is_downcast", "Temperature (degC) invalid"} }

\* the depths 0, step, 2 step, .., max, .., 2 step, step, 0
VDepths(max, step) ==
    LET up == max \div step
    IN  [k \in 1..(2 * up + 1) |->
            IF k <= up + 1 THEN (k - 1) * step ELSE (2 * up + 1 - k) * step]

\* V-shaped casts as converted (no invalid flag True, is_downcast not set)
VCasts ==
    { [cast |-> BinCast(AllBinCols \ {"is_downcast"}, VDepths(max, step),
                        [k \in DOMAIN VDepths(max, step) |-> {}], <<>>),
       v |-> [max |-> max, step |-> step], marked_by |-> "nobody"] :
        max \in 1..MaxVDepth, step \in 1..(PerMetre + 1) }

WellFormedBinCast(c) ==
    /\ Len(c.cast.invalid) = Len(c.cast.depth)
    /\ c.cast.is_downcast = <<>> \/ Len(c.cast.is_downcast) = Len(c.cast.depth)
    /\ \A k \in DOMAIN c.cast.invalid : c.cast.invalid[k] \subseteq c.cast.cols
    /\ c.v.max = 0 \/ c.v.max % c.v.step = 0

BinCasts ==
    { c \in MarkedCasts \cup CastsLackingColumns \cup VCasts : WellFormedBinCast(c) }

NotCalled == [kind |-> "none"]

BinIdle ==
    /\ bin_df = [cast |-> BinCast({}, <<>>, <<>>, <<>>), v |-> NotV,
                 marked_by |-> "off"]
    /\ bin_args = NotCalled
    /\ bin_out = NotCalled

InitBin ==
    /\ bin_df \in BinCasts
    /\ bin_args = NotCalled
    /\ bin_out = NotCalled

\* df = set_downcast(df=df) on a cast that has not been marked
MarkDowncast ==
    /\ bin_out = NotCalled
    /\ bin_df.marked_by = "nobody"
    /\ LET r == set_downcast(Cast(bin_df.cast.cols, bin_df.cast.depth))
       IN  /\ r.kind = "df"
           /\ bin_df' = [bin_df EXCEPT
                           !.cast.cols = @ \cup {"is_downcast"},
                           !.cast.is_downcast = r.df.is_downcast,
                           !.marked_by = "set_downcast"]
    /\ UNCHANGED <<bin_args, bin_out>>
    /\ UNCHANGED notBin

\* one call bin_depths(df=df, bin_size=.., average=..)
BinDepths ==
    /\ bin_out = NotCalled
    /\ \E bin_size \in BinSizes, average \in BOOLEAN :
         /\ bin_args' = [kind |-> "called", bin_size |-> bin_size,
                         average |-> average]
         /\ bin_out' \in bin_depths(bin_df.cast, bin_size, average)
    /\ UNCHANGED bin_df
    /\ UNCHANGED notBin

NextBin == MarkDowncast \/ BinDepths

(***************************************************************************)
(* UctdReader: reading and parsing the asc file of a UCTD cast             *)
(***************************************************************************)
MaxULines == 2      \* data lines of an asc file
MaxBatch == 2       \* files handed to one worker

\* header = {0: "scan#", 1: "Conductivity (S_per_m)", 2: "Temperature (degC)",
\* 3: "Pressure (decibar)"}: the four columns of a data line, in the
\* order of the file (position k of the file is index k + 1 here)
UctdColumns ==
    <<"scan#", "Conductivity (S_per_m)", "Temperature (degC)", "Pressure (decibar)">>

OUTPUT_COLUMNS ==
    <<"Depth (m)", "Salinity (psu)", "Sound Velocity (m_per_s) (cm)",
      "Sound Velocity (m_per_s) (d)", "Sound Velocity (m_per_s) (w)",
      "Latitude", "Longitude", "Date (YYYY-MM-DD)", "Time (HH:mm:ss)">>

\* the columns parse_data converts with float()
Measured == {"Conductivity (S_per_m)", "Temperature (degC)", "Pressure (decibar)"}

\* A data line: the number of tokens left by filter(None, line.split(" "))
\* and the measured columns whose token float() does not accept.
UctdLine(tokens, nonnum) == [tokens |-> tokens, nonnum |-> nonnum]

NumericLine == UctdLine(4, {})

UctdLineKinds ==
    { NumericLine,
      UctdLine(3, {}),                  \* the last token is missing
      UctdLine(0, {}) }                 \* a blank line
    \cup { UctdLine(4, {c}) : c \in Measured }

\* An asc file: whether it is on disk, whether its header gives a
\* latitude, a longitude and a start date-time, and its data lines after
\* the "*scan#" line.
AscFile(exists, lat, lon, start, lines) ==
    [exists |-> exists, lat |-> lat, lon |-> lon, start |-> start, lines |-> lines]

\* lines of the file up to and including the "*scan#" line
HeaderLines(f) ==
    (IF f.lat THEN 1 ELSE 0) + (IF f.lon THEN 1 ELSE 0) + (IF f.start THEN 1 ELSE 0) + 1

\* The files tried: a complete header with any data lines, a header that
\* lacks one of latitude, longitude, start date-time, and a file that is
\* not on disk.
AscFiles ==
    { AscFile(TRUE, TRUE, TRUE, TRUE, lines) : lines \in SeqsUpTo(UctdLineKinds, MaxULines) }
    \cup { AscFile(TRUE, FALSE, TRUE, TRUE, <<NumericLine>>),
           AscFile(TRUE, TRUE, FALSE, TRUE, <<NumericLine>>),
           AscFile(TRUE, TRUE, TRUE, FALSE, <<NumericLine>>),
           AscFile(FALSE, TRUE, TRUE, TRUE, <<NumericLine>>) }

\* no count / no position yet (None)
NoCount == -1

\* _raw_data before the first file was read: the attribute does not exist
NoRawData == [set |-> FALSE]

\* _initialize_cast_values: latitude, longitude and start date-time are 0
\* for None and otherwise the number of the file they were read from.
\* _raw_data and _data_start are not among the values it resets.
initialize_cast_values(r) ==
    [r EXCEPT !.data_file = 0, !.line_count = NoCount, !.start_date_time = 0,
              !.latitude = 0, !.longitude = 0, !.header = <<>>]

\* UctdReader(): _initialize_cast_values, no _raw_data, no _data_start
NewUctdReader ==
    [data_file |-> 0, line_count |-> NoCount, start_date_time |-> 0,
     latitude |-> 0, longitude |-> 0, header |-> <<>>,
     raw_data |-> NoRawData, data_start |-> NoCount]

\* read_file(data_file) for file number n found on disk as f (files end
\* with a newline)
read_file(r, n, f) ==
    LET r1 == [initialize_cast_values(r) EXCEPT !.data_file = n]
    IN  IF ~f.exists THEN r1
        ELSE [r1 EXCEPT !.line_count = HeaderLines(f) + Len(f.lines),
                        !.raw_data = [set |-> TRUE, file |-> n, content |-> f]]

\* extract_metadata.  Result: [raised, reader].
extract_metadata(r) ==
    IF ~r.raw_data.set
    THEN [raised |-> TRUE, reader |-> r]        \* self._raw_data: AttributeError
    ELSE LET f == r.raw_data.content
         IN  [raised |-> FALSE,
              reader |-> [r EXCEPT
                  !.data_start = HeaderLines(f),
                  !.latitude = IF f.lat THEN r.raw_data.file ELSE @,
                  !.longitude = IF f.lon THEN r.raw_data.file ELSE @,
                  !.start_date_time = IF f.start THEN r.raw_data.file ELSE @,
                  !.header = UctdColumns \o OUTPUT_COLUMNS]]

\* [k for k, v in self._header.items() if name in v][0]: the first
\* position of the header whose name holds the word, as an index of the
\* tokens counted from 1
ColumnOf(header, name) ==
    CHOOSE k \in DOMAIN header :
        /\ header[k] = name
        /\ \A j \in 1..(k - 1) : header[j] # name

\* float(elements[..]) of the three measured columns raises
FloatRaises(header, line) ==
    \E c \in Measured : ColumnOf(header, c) > line.tokens \/ c \in line.nonnum

\* The loop "for i in range(self._data_start, self._line_count+1)" from
\* line i (0-based) on; acc is [rows, tick]: the rows appended to output
\* and the number of time increments applied.  Result: [raised, acc].
RECURSIVE ParseLoop(_, _, _)
ParseLoop(r, i, acc) ==
    LET raw_lines == r.raw_data.content.lines
        first == HeaderLines(r.raw_data.content)
    IN  IF i > r.line_count THEN [raised |-> FALSE, acc |-> acc]
        ELSE IF i >= first + Len(raw_lines) THEN ParseLoop(r, i + 1, acc)
        ELSE IF i < first THEN
            \* a header line: fewer than four tokens
            ParseLoop(r, i + 1, acc)
        ELSE LET line == raw_lines[i - first + 1]
             IN  IF line.tokens < 4 THEN ParseLoop(r, i + 1, acc)
                 ELSE IF FloatRaises(r.header, line)
                 THEN [raised |-> TRUE, acc |-> acc]        \* float(): ValueError
                 ELSE ParseLoop(r, i + 1,
                          [rows |-> Append(acc.rows, [line |-> i - first + 1,
                                                      tick |-> acc.tick]),
                           tick |-> acc.tick + 1])

NoURows == [rows |-> <<>>, tick |-> 0]

\* parse_data.  Result: [raised, status, acc, written]; written is the
\* file whose csv was written, 0 for none.
parse_data(r) ==
    IF r.latitude = 0 \/ r.longitude = 0 \/ r.start_date_time = 0
    THEN [raised |-> FALSE, status |-> FALSE, acc |-> NoURows, written |-> 0]
    ELSE IF r.line_count = NoCount
    THEN [raised |-> TRUE, status |-> FALSE, acc |-> NoURows, written |-> 0]    \* None + 1
    ELSE LET res == ParseLoop(r, r.data_start, NoURows)
         IN  [raised |-> res.raised, status |-> ~res.raised, acc |-> res.acc,
              written |-> IF res.raised THEN 0 ELSE r.data_file]

(***************************************************************************)
(* ConvertWorker.run of the mobile application, with a UctdReader          *)
(***************************************************************************)
NoUFile == [none |-> TRUE]

Skipped == "Skipped, cast is missing latitude, longitude, or start date-time values"

UctdIdle ==
    /\ u_reader = NewUctdReader
    /\ u_source_files = 0
    /\ u_file_no = 0
    /\ u_is_running = TRUE
    /\ u_pc = "off"
    /\ u_items = <<>>
    /\ u_convertStatus = None
    /\ u_last = NoUFile

InitUctd ==
    /\ u_reader = NewUctdReader
    /\ u_source_files = 0
    /\ u_file_no = 0
    /\ u_is_running = TRUE
    /\ u_pc = "idle"
    /\ u_items = <<>>
    /\ u_convertStatus = None
    /\ u_last = NoUFile

\* a new ConvertWorker for a batch of n asc files with the UctdReader of
\* the ConvertScreen; run begins.
UStartRun ==
    /\ u_pc = "idle"
    /\ \E n \in 1..MaxBatch : u_source_files' = n
    /\ u_file_no' = 0
    /\ u_is_running' = TRUE
    /\ u_pc' = "running"
    /\ u_items' = <<>>
    /\ u_convertStatus' = None
    /\ u_last' = NoUFile
    /\ UNCHANGED u_reader
    /\ UNCHANGED notUctd

\* ConvertWorker.stop
UStop ==
    /\ u_pc = "running"
    /\ u_is_running
    /\ u_is_running' = FALSE
    /\ UNCHANGED <<u_reader, u_source_files, u_file_no, u_pc, u_items,
                   u_convertStatus, u_last>>
    /\ UNCHANGED notUctd

\* One iteration of "for file in self.source_files" in the UctdReader
\* branch, for a cast found on disk as f: "Processing..." is emitted, then
\* "Skipped, .." or "Success"; an exception ends run in the except clause.
UConvertFile ==
    /\ u_pc = "running"
    /\ u_is_running
    /\ u_file_no < u_source_files
    /\ \E f \in AscFiles :
         LET n    == u_file_no + 1
             rd   == read_file(u_reader, n, f)
             em   == extract_metadata(rd)
             pd   == parse_data(em.reader)
             raised == em.raised \/ pd.raised
             started == Append(u_items, [source |-> n, status |-> "Processing..."])
         IN  /\ u_reader' = em.reader
             /\ u_last' = [none |-> FALSE, file |-> n, cast |-> f,
                           raised |-> raised,
                           status |-> ~raised /\ pd.status,
                           acc |-> IF em.raised THEN NoURows ELSE pd.acc,
                           written |-> IF em.raised THEN 0 ELSE pd.written,
                           data_of |-> IF em.reader.raw_data.set
                                       THEN em.reader.raw_data.file ELSE 0]
             /\ u_items' = IF raised THEN started
                           ELSE IF ~pd.status
                           THEN Append(started, [source |-> n, status |-> Skipped])
                           ELSE Append(started, [source |-> n, status |-> "Success"])
             /\ u_file_no' = n
             /\ IF raised
                THEN u_pc' = "done" /\ u_convertStatus' = FALSE
                ELSE UNCHANGED <<u_pc, u_convertStatus>>
    /\ UNCHANGED <<u_source_files, u_is_running>>
    /\ UNCHANGED notUctd

\* the loop of run ends (all files handled, or stop was called):
\* convertStatus.emit(True, ..)
UFinishRun ==
    /\ u_pc = "running"
    /\ u_file_no = u_source_files \/ ~u_is_running
    /\ u_pc' = "done"
    /\ u_convertStatus' = TRUE
    /\ UNCHANGED <<u_reader, u_source_files, u_file_no, u_is_running, u_items, u_last>>
    /\ UNCHANGED notUctd

(***************************************************************************)
(* UctdReader.bin_depths                                                   *)
(***************************************************************************)
\* the rows kept by df = df[mask]: the mask reads the temperature,
\* conductivity and pressure flags only
UctdValidRows(d) ==
    { k \in DOMAIN d.depth : d.invalid[k] \cap RequiredInvalidCols = {} }

UctdBinned(bins, average) ==
    [raised |-> FALSE, written |-> TRUE, bins |-> bins, average |-> average]
UctdNoOutput == [raised |-> FALSE, written |-> FALSE]
UctdBinRaised == [raised |-> TRUE, written |-> FALSE]

\* The outcomes of UctdReader.bin_depths(output_file, df, bin_size,
\* average): the function returns None in every case; written tells
\* whether df_output.to_csv(output_file) was reached.  max_depth is taken
\* before the try block, everything after it is inside: an exception there
\* is logged and the function returns.  On a frame with no rows the
\* conversion of "dt" either goes through or raises inside the try block.
uctd_bin_depths(d, bin_size, average) ==
    IF DOMAIN d.depth = {} THEN {UctdNoOutput}
    ELSE IF "Depth (m)" \notin d.cols THEN {UctdBinRaised}          \* KeyError
    ELSE IF MaxOfDepths(d.depth) = NaN THEN {UctdBinRaised}         \* math.floor(nan)
    ELSE IF ~(RequiredInvalidCols \subseteq d.cols) THEN {UctdNoOutput}
    ELSE IF "is_downcast" \notin d.cols THEN {UctdNoOutput}
    ELSE LET edges   == BinEdges(Floor(MaxOfDepths(d.depth)), bin_size)
             valid   == UctdValidRows(d)
             descent == { k \in valid : d.is_downcast[k] = 1 }
             ascent  == valid \ descent
             out == IF average
                    THEN LegAveraged(d, descent, 1, edges, bin_size)
                         \o SortedDescending(LegAveraged(d, ascent, 0, edges, bin_size))
                    ELSE LegRows(d, descent, 1, edges, bin_size)
                         \o RowsByLabelDescending(LegRows(d, ascent, 0, edges, bin_size))
         IN  IF out = <<>> THEN {UctdBinned(out, average), UctdNoOutput}
             ELSE {UctdBinned(out, average)}

(***************************************************************************)
(* BinWorker.run                                                           *)
(***************************************************************************)
\* the depths 0 m, 1 m, 2 m, 1 m of a short cast, one row up
PickleDepths == <<0, PerMetre, 2 * PerMetre, PerMetre>>

PickleDowncast == <<1, 1, 1, 0>>

\* The frames read from the pickle files: no flag set; one row flagged;
\* every row flagged in one column; no rows; no depth column; no depth
\* on any row.
PickleFrames ==
    { BinCast(AllBinCols, PickleDepths, [k \in 1..4 |-> {}], PickleDowncast),
      BinCast(AllBinCols, PickleDepths,
              [k \in 1..4 |-> IF k = 2 THEN {"Temperature (degC) invalid"} ELSE {}],
              PickleDowncast),
      BinCast(AllBinCols, <<>>, <<>>, <<>>),
      BinCast(AllBinCols \ {"Depth (m)"}, PickleDepths, [k \in 1..4 |-> {}],
              PickleDowncast),
      BinCast(AllBinCols, [k \in 1..4 |-> NaN], [k \in 1..4 |-> {}], PickleDowncast) }
    \cup { BinCast(AllBinCols, PickleDepths, [k \in 1..4 |-> {c}], PickleDowncast) :
             c \in InvalidCols }

\* file.startswith("CTD") / file.startswith("UCTD")
PickleFiles == [prefix : {"CTD", "UCTD"}, df : PickleFrames]

NoPickle == [none |-> TRUE]

BinRunIdle ==
    /\ pickle_files = 0
    /\ b_args = NotCalled
    /\ b_file_no = 0
    /\ b_is_running = TRUE
    /\ b_pc = "off"
    /\ b_items = <<>>
    /\ binStatus = None
    /\ b_last = NoPickle

InitBinRun ==
    /\ pickle_files = 0
    /\ b_args = NotCalled
    /\ b_file_no = 0
    /\ b_is_running = TRUE
    /\ b_pc = "idle"
    /\ b_items = <<>>
    /\ binStatus = None
    /\ b_last = NoPickle

\* bin_files: a new BinWorker for the n files of the files model; run
\* begins.
bin_files ==
    /\ b_pc = "idle"
    /\ \E n \in 1..MaxBatch : pickle_files' = n
    /\ \E bin_size \in BinSizes, do_average \in BOOLEAN :
         b_args' = [kind |-> "called", bin_size |-> bin_size, average |-> do_average]
    /\ b_file_no' = 0
    /\ b_is_running' = TRUE
    /\ b_pc' = "running"
    /\ b_items' = <<>>
    /\ binStatus' = None
    /\ b_last' = NoPickle
    /\ UNCHANGED notBinRun

\* BinWorker.stop
BinStop ==
    /\ b_pc = "running"
    /\ b_is_running
    /\ b_is_running' = FALSE
    /\ UNCHANGED <<pickle_files, b_args, b_file_no, b_pc, b_items, binStatus, b_last>>
    /\ UNCHANGED notBinRun

\* One iteration of "for file in self.pickle_files" for a pickle file f:
\* "Binning..." is emitted, the frame is binned on the CTD or the UCTD
\* path, then "Success" is emitted; an exception (also None.to_csv on the
\* CTD path) ends run in the except clause.
BinFile ==
    /\ b_pc = "running"
    /\ b_is_running
    /\ b_file_no < pickle_files
    /\ \E f \in PickleFiles :
         LET n == b_file_no + 1
             started == Append(b_items, [source |-> n, status |-> "Binning..."])
             outcomes ==
                 IF f.prefix = "CTD"
                 THEN { IF o.kind = "df" THEN UctdBinned(o.bins, o.average)
                        ELSE UctdBinRaised :
                          o \in bin_depths(f.df, b_args.bin_size, b_args.average) }
                 ELSE uctd_bin_depths(f.df, b_args.bin_size, b_args.average)
         IN  \E o \in outcomes :
               /\ b_last' = [none |-> FALSE, file |-> n, f |-> f, raised |-> o.raised,
                             written |-> o.written,
                             bins |-> IF o.written THEN o.bins ELSE <<>>]
               /\ b_items' = IF o.raised THEN started
                             ELSE Append(started, [source |-> n, status |-> "Success"])
               /\ b_file_no' = n
               /\ IF o.raised
                  THEN b_pc' = "done" /\ binStatus' = FALSE
                  ELSE UNCHANGED <<b_pc, binStatus>>
    /\ UNCHANGED <<pickle_files, b_args, b_is_running>>
    /\ UNCHANGED notBinRun

\* the loop of run ends (all files handled, or stop was called):
\* binStatus.emit(True, ..)
BinFinishRun ==
    /\ b_pc = "running"
    /\ b_file_no = pickle_files \/ ~b_is_running
    /\ b_pc' = "done"
    /\ binStatus' = TRUE
    /\ UNCHANGED <<pickle_files, b_args, b_file_no, b_is_running, b_items, b_last>>
    /\ UNCHANGED notBinRun

\* one worker at a time: a ConvertWorker or a BinWorker
NextWorkers ==
    \/ UStartRun \/ UStop \/ UConvertFile \/ UFinishRun
    \/ bin_files \/ BinStop \/ BinFile \/ BinFinishRun

(***************************************************************************)
(* SpecCast: one hex cast read and converted by a new SbeReader            *)
(***************************************************************************)
MaxCastLines == 3   \* data lines of the cast

\* well-formed casts with any data lines, with or without a final newline
HexCasts ==
    { GoodCast(l, nl) : l \in SeqsUpTo(LineKinds, MaxCastLines), nl \in BOOLEAN }

CastIdle ==
    /\ one_cast = NoFile
    /\ one_reader = NewReader
    /\ one_out = NotCalled

InitCast ==
    /\ one_cast \in HexCasts
    /\ one_reader = NewReader
    /\ one_out = NotCalled

\* read_source_files(data_type="hex", ..) on the new reader
ReadCast ==
    /\ one_reader = NewReader
    /\ one_out = NotCalled
    /\ LET rd == read_source_files(one_reader, 1, one_cast)
       IN  /\ ~rd.raised
           /\ one_reader' = rd.reader
    /\ UNCHANGED <<one_cast, one_out>>
    /\ UNCHANGED notCast

\* convert_hex_to_csv() on the reader that read the cast
ConvertCast ==
    /\ one_reader # NewReader
    /\ one_out = NotCalled
    /\ LET cv == convert_hex_to_csv(one_reader)
       IN  one_out' = [kind |-> "called", raised |-> cv.raised, acc |-> cv.acc,
                       written |-> cv.written]
    /\ UNCHANGED <<one_cast, one_reader>>
    /\ UNCHANGED notCast

NextCast == ReadCast \/ ConvertCast

(***************************************************************************)
(* The worker thread of ConvertScreen (and, alike, of BinScreen): one      *)
(* QThread made in __init__, a new worker for every request                *)
(***************************************************************************)
MaxCalls == 3       \* calls of _start_convert_thread

NewWorker == [connected |-> TRUE, runs |-> 0]

\* the workers whose run is connected to the started signal, in the order
\* of their connection
ConnectedWorkers(ws) == SelectSeq([w \in DOMAIN ws |-> w], LAMBDA w : ws[w].connected)

ThreadIdle ==
    /\ t_workers = <<>>
    /\ t_thread = "off"
    /\ t_pending = <<>>
    /\ t_current = 0
    /\ t_status = 0
    /\ t_exit = FALSE

\* ConvertScreen.__init__: self._convert_thread = QThread(), no worker
InitThread ==
    /\ t_workers = <<>>
    /\ t_thread = "stopped"
    /\ t_pending = <<>>
    /\ t_current = 0
    /\ t_status = 0
    /\ t_exit = FALSE

\* _start_convert_thread (bin_files): a new worker replaces the one held in
\* self._convert_worker, its run is connected to started, and start() is
\* called, which does nothing when the thread is running.  The replaced
\* worker has no reference left: it is either destroyed, which removes its
\* connection, or kept (released = FALSE); a worker whose run is executing
\* is kept.  started calls the slots connected when the thread starts.
StartConvertThread ==
    /\ t_thread # "off"
    /\ Len(t_workers) < MaxCalls
    /\ \E released \in BOOLEAN :
         LET prev == Len(t_workers)
             ws0  == IF released
                     THEN [t_workers EXCEPT ![prev].connected = FALSE]
                     ELSE t_workers
             ws   == Append(ws0, NewWorker)
         IN  /\ released => (prev > 0 /\ t_current # prev /\ t_workers[prev].connected)
             /\ t_workers' = ws
             /\ IF t_thread = "stopped"
                THEN /\ t_thread' = "running"
                     /\ t_pending' = ConnectedWorkers(ws)
                     /\ t_exit' = FALSE
                ELSE /\ t_pending' = IF released
                                     THEN SelectSeq(t_pending, LAMBDA w : w # prev)
                                     ELSE t_pending
                     /\ UNCHANGED <<t_thread, t_exit>>
    /\ UNCHANGED <<t_current, t_status>>
    /\ UNCHANGED notThread

\* the started signal calls the run of the next connected worker
RunBegin ==
    /\ t_thread = "running"
    /\ t_current = 0
    /\ t_pending # <<>>
    /\ t_current' = Head(t_pending)
    /\ t_pending' = Tail(t_pending)
    /\ t_workers' = [t_workers EXCEPT ![Head(t_pending)].runs = @ + 1]
    /\ UNCHANGED <<t_thread, t_status, t_exit>>
    /\ UNCHANGED notThread

\* run returns: its last statement emits convertStatus
RunEnd ==
    /\ t_current # 0
    /\ t_current' = 0
    /\ t_status' = t_status + 1
    /\ UNCHANGED <<t_workers, t_thread, t_pending, t_exit>>
    /\ UNCHANGED notThread

\* _convert_status_received (_bin_status_received): self._convert_thread.quit()
ConvertStatusReceived ==
    /\ t_status > 0
    /\ t_status' = t_status - 1
    /\ t_exit' = (t_exit \/ t_thread = "running")
    /\ UNCHANGED <<t_workers, t_thread, t_pending, t_current>>
    /\ UNCHANGED notThread

\* the thread ends once the slots of started have returned and quit() was
\* called
ThreadFinished ==
    /\ t_thread = "running"
    /\ t_pending = <<>>
    /\ t_current = 0
    /\ t_exit
    /\ t_thread' = "stopped"
    /\ t_exit' = FALSE
    /\ UNCHANGED <<t_workers, t_pending, t_current, t_status>>
    /\ UNCHANGED notThread

NextThread ==
    StartConvertThread \/ RunBegin \/ RunEnd \/ ConvertStatusReceived \/ ThreadFinished

(***************************************************************************)
(* seawater.py: the refinement loop of sw_cndr for one row.  Ratio         *)
(* estimates are counted in units of 0.0001 and dels in units of 1.0e-10;  *)
(* the results of sw_sals and sw_salds are not computed: a step may give   *)
(* any estimate and any dels, NaN included.                                *)
(***************************************************************************)
MaxIter == 100      \* iloop < 100
MinRx == 5          \* Rx_loop >= 0.0005
Tolerance == 1      \* dels > 1.0e-10
FirstDels == 100000 \* dels = 10000, counted as 1.0e-5: far above the tolerance

NoRx == -1

\* float comparisons: every comparison with NaN is False
FloatGt(x, y) == x # NaN /\ y # NaN /\ x > y
FloatGe(x, y) == x # NaN /\ y # NaN /\ x >= y
FloatLt(x, y) == x # NaN /\ y # NaN /\ x < y

\* the estimates and the dels values a step can give
RxVals == {0, MinRx - 1, MinRx, MinRx + 1, 10000, NaN}
DelsVals == {0, Tolerance, Tolerance + 1, NaN}

\* s_loop: NaN, a negative salinity (-1), or a salinity given by
\* (s_loop / 35.0) ** 0.5 in units of 0.0001
SLoopVals == {NaN, -1, 0, MinRx - 1, MinRx, MinRx + 1, 10000}

\* Rx_loop = (s_loop / 35.0) ** 0.5 if s_loop >= 0 else 0
FirstRx(s_loop) == IF FloatGe(s_loop, 0) THEN s_loop ELSE 0

\* the condition under which the loop goes on
KeepsRefining(dels, iloop, rx) ==
    FloatGt(dels, Tolerance) /\ iloop < MaxIter /\ FloatGe(rx, MinRx)

\* the else branch: Rx_loop when the loop is left
RxOnExitUnrestored(rx, prev) == rx
RxOnExit(rx, prev) == IF FloatLt(rx, MinRx) THEN prev ELSE rx

CndrIdle ==
    /\ c_pc = "off"
    /\ c_rx = 0
    /\ c_prev = 0
    /\ c_dels = FirstDels
    /\ c_iloop = 0
    /\ c_before = NoRx
    /\ c_ret = NoRx

\* the statements before "while not end_loop"
InitCndr ==
    /\ c_pc = "loop"
    /\ \E s_loop \in SLoopVals :
         /\ c_rx = FirstRx(s_loop)
         /\ c_prev = FirstRx(s_loop)
    /\ c_dels = FirstDels
    /\ c_iloop = 0
    /\ c_before = NoRx
    /\ c_ret = NoRx

\* one pass of the loop body that refines the estimate
RefineStep ==
    /\ c_pc = "loop"
    /\ KeepsRefining(c_dels, c_iloop, c_rx)
    /\ c_prev' = c_rx
    /\ c_before' = c_rx
    /\ \E rx \in RxVals, dels \in DelsVals :
         /\ c_rx' = rx
         /\ c_dels' = dels
    /\ c_iloop' = c_iloop + 1
    /\ UNCHANGED <<c_pc, c_ret>>
    /\ UNCHANGED notCndr

\* the pass that takes the else branch and breaks; Rx[i] = Rx_loop
LeaveLoop ==
    /\ c_pc = "loop"
    /\ ~KeepsRefining(c_dels, c_iloop, c_rx)
    /\ c_ret' = RxOnExit(c_rx, c_prev)
    /\ c_pc' = "done"
    /\ UNCHANGED <<c_rx, c_prev, c_dels, c_iloop, c_before>>
    /\ UNCHANGED notCndr

NextCndr == RefineStep \/ LeaveLoop

(***************************************************************************)
(* Floats as exact fractions with NaN and the two infinities (numpy        *)
(* arithmetic: a division by zero gives an infinity or NaN)                *)
(***************************************************************************)
FNaN == [k |-> "nan"]
FInf(sign) == [k |-> "inf", s |-> sign]

RECURSIVE Gcd(_, _)
Gcd(x, y) == IF y = 0 THEN x ELSE Gcd(y, x % y)

Abs(x) == IF x < 0 THEN -x ELSE x
Sign(x) == IF x < 0 THEN -1 ELSE 1

\* the fraction n / d, d # 0, in lowest terms with a positive denominator
Frac(n, d) ==
    LET g == Gcd(Abs(n), Abs(d))
    IN  [k |-> "fin", n |-> Sign(d) * (n \div g), d |-> Abs(d) \div g]

FNum(x) == Frac(x, 1)

IsFin(x) == x.k = "fin"
IsNaN(x) == x.k = "nan"                 \* math.isnan
FSign(x) == IF IsFin(x) THEN Sign(x.n) ELSE x.s

FAdd(x, y) ==
    IF IsNaN(x) \/ IsNaN(y) THEN FNaN
    ELSE IF IsFin(x) /\ IsFin(y) THEN Frac(x.n * y.d + y.n * x.d, x.d * y.d)
    ELSE IF IsFin(x) THEN y
    ELSE IF IsFin(y) THEN x
    ELSE IF x.s = y.s THEN x ELSE FNaN

FNeg(x) ==
    IF IsNaN(x) THEN FNaN
    ELSE IF IsFin(x) THEN Frac(-x.n, x.d)
    ELSE FInf(-x.s)

FSub(x, y) == FAdd(x, FNeg(y))

FMul(x, y) ==
    IF IsNaN(x) \/ IsNaN(y) THEN FNaN
    ELSE IF IsFin(x) /\ IsFin(y) THEN Frac(x.n * y.n, x.d * y.d)
    ELSE IF (IsFin(x) /\ x.n = 0) \/ (IsFin(y) /\ y.n = 0) THEN FNaN
    ELSE FInf(FSign(x) * FSign(y))

FDiv(x, y) ==
    IF IsNaN(x) \/ IsNaN(y) THEN FNaN
    ELSE IF IsFin(x) /\ IsFin(y)
    THEN IF y.n # 0 THEN Frac(x.n * y.d, x.d * y.n)
         ELSE IF x.n = 0 THEN FNaN ELSE FInf(Sign(x.n))
    ELSE IF IsFin(x) THEN FNum(0)
    ELSE IF IsFin(y) THEN FInf(x.s * Sign(y.n))
    ELSE FNaN

(***************************************************************************)
(* qaqc.py / UCTDReader.py: correct_thermal_mass                           *)
(***************************************************************************)
MaxTmRows == 3      \* rows of the cast

scan_rate == 16

\* a = 2 * alpha / (2 + beta * dt) with beta = 1 / tau, dt = 1 / scan_rate
ThermalA(alpha, tau) ==
    LET beta == FDiv(FNum(1), tau)
        dt   == Frac(1, scan_rate)
    IN  FDiv(FMul(FNum(2), alpha), FAdd(FNum(2), FMul(beta, dt)))

\* b = 1 - (2 * a / alpha)
ThermalB(alpha, tau) ==
    FSub(FNum(1), FDiv(FMul(FNum(2), ThermalA(alpha, tau)), alpha))

\* the row replaces a result that is NaN by the previous row's term
HeldIfNaN(value, previous) == IF IsNaN(value) THEN previous ELSE value

\* the loop "for i in range(1, len(C))" from row i (counted from 1) on;
\* C_corr holds the terms of the rows before i
RECURSIVE ThermalLoop(_, _, _, _, _, _)
ThermalLoop(a, b, gamma, T, i, C_corr) ==
    IF i > Len(T) THEN C_corr
    ELSE LET value == FAdd(FMul(FNeg(b), C_corr[i - 1]),
                           FMul(FMul(a, gamma[i]), FSub(T[i], T[i - 1])))
         IN  ThermalLoop(a, b, gamma, T, i + 1,
                         Append(C_corr, HeldIfNaN(value, C_corr[i - 1])))

\* C_corr of correct_thermal_mass before "C_corr = C_corr + C"; gamma is
\* the result of compute_gamma, one value per row
ThermalTerms(alpha, tau, T, gamma) ==
    IF Len(T) = 0 THEN <<>>
    ELSE ThermalLoop(ThermalA(alpha, tau), ThermalB(alpha, tau), gamma, T, 2,
                     <<FNum(0)>>)

\* the arguments: the coefficients, and per row a temperature and a
\* sensitivity gamma
AlphaVals == {FNum(0), FNum(1), FNaN}
TauVals == {FNum(0), Frac(1, 16), Frac(1, 32), FInf(1)}
TempVals == {FNum(0), FNum(1), FNaN, FInf(1)}
GammaVals == {FNum(1), FNaN}

ThermalIdle ==
    /\ tm_in = [none |-> TRUE]
    /\ tm_out = <<>>

InitThermal ==
    /\ \E n \in 1..MaxTmRows :
         tm_in \in [none : {FALSE}, alpha : AlphaVals, tau : TauVals,
                    T : [1..n -> TempVals], gamma : [1..n -> GammaVals]]
    /\ tm_out = <<>>

\* one call of correct_thermal_mass
CorrectThermalMass ==
    /\ ~tm_in.none
    /\ tm_out = <<>>
    /\ tm_out' = ThermalTerms(tm_in.alpha, tm_in.tau, tm_in.T, tm_in.gamma)
    /\ UNCHANGED tm_in
    /\ UNCHANGED notThermal

NextThermal == CorrectThermalMass

(***************************************************************************)
(* SBEReader.py: the values decoded from one 3-byte voltage field          *)
(***************************************************************************)
\* "{0:08b}".format(x) for x in 0..255: the eight binary digits of x, the
\* most significant first
RECURSIVE BinDigits(_, _)
BinDigits(x, width) ==
    IF width = 0 THEN <<>> ELSE Append(BinDigits(x \div 2, width - 1), x % 2)

Format08b(x) == BinDigits(x, 8)

\* int(digits, 2)
RECURSIVE IntBase2(_)
IntBase2(digits) ==
    IF digits = <<>> THEN 0
    ELSE 2 * IntBase2(SubSeq(digits, 1, Len(digits) - 1)) + digits[Len(digits)]

\* bytes0 + bytes1[:4] and bytes1[4:] + bytes2
FirstDigitsLowNibble(bytes0, bytes1) == bytes0 \o SubSeq(bytes1, 5, 8)
FirstDigits(bytes0, bytes1) == bytes0 \o SubSeq(bytes1, 1, 4)
SecondDigits(bytes1, bytes2) == SubSeq(bytes1, 5, 8) \o bytes2

\* 5 * (1 - (raw / 4095))
VoltageOf(raw) == FMul(FNum(5), FSub(FNum(1), Frac(raw, 4095)))

\* the branch "Voltage output from A/D channels": raw_units_line after the
\* two appends
DecodeVoltageField(raw_units_line, b) ==
    LET bytes0 == Format08b(b[1])
        bytes1 == Format08b(b[2])
        bytes2 == Format08b(b[3])
        first_voltage  == VoltageOf(IntBase2(FirstDigits(bytes0, bytes1)))
        second_voltage == VoltageOf(IntBase2(SecondDigits(bytes1, bytes2)))
    IN  Append(Append(raw_units_line, first_voltage), second_voltage)

\* the bytes of a field: every value of the middle byte, whose two halves
\* go to different voltages, and some values of the outer bytes
OuterByteVals == {0, 1, 15, 16, 128, 255}
FieldBytes == { <<b0, b1, b2>> : b0 \in OuterByteVals, b1 \in 0..255,
                                 b2 \in OuterByteVals }

VoltIdle ==
    /\ v_bytes = <<>>
    /\ v_line = <<>>

InitVolt ==
    /\ v_bytes \in FieldBytes
    /\ v_line = <<>>

\* the loop of convert_hex_to_csv reaches a voltage field
DecodeVoltage ==
    /\ v_bytes # <<>>
    /\ v_line = <<>>
    /\ v_line' = DecodeVoltageField(v_line, v_bytes)
    /\ UNCHANGED v_bytes
    /\ UNCHANGED notVolt

NextVolt == DecodeVoltage

(***************************************************************************)
(* The specifications                                                      *)
(***************************************************************************)
InitSpecSchema ==
    InitSchema /\ ConvIdle /\ QaqcIdle /\ LoopIdle /\ BinIdle
    /\ UctdIdle /\ BinRunIdle
    /\ CastIdle
    /\ ThreadIdle
    /\ CndrIdle
    /\ ThermalIdle
    /\ VoltIdle

SpecSchema == InitSpecSchema /\ [][NextSchema]_vars

InitSpecConv ==
    InitConv /\ SchemaIdle /\ QaqcIdle /\ LoopIdle /\ BinIdle
    /\ UctdIdle /\ BinRunIdle
    /\ CastIdle
    /\ ThreadIdle
    /\ CndrIdle
    /\ ThermalIdle
    /\ VoltIdle

SpecConv == InitSpecConv /\ [][NextConv]_vars

InitSpecQaqc ==
    InitQaqc /\ SchemaIdle /\ ConvIdle /\ LoopIdle /\ BinIdle
    /\ UctdIdle /\ BinRunIdle
    /\ CastIdle
    /\ ThreadIdle
    /\ CndrIdle
    /\ ThermalIdle
    /\ VoltIdle

SpecQaqc == InitSpecQaqc /\ [][NextQaqc]_vars

InitSpecLoop ==
    InitLoop /\ SchemaIdle /\ ConvIdle /\ QaqcIdle /\ BinIdle
    /\ UctdIdle /\ BinRunIdle
    /\ CastIdle
    /\ ThreadIdle
    /\ CndrIdle
    /\ ThermalIdle
    /\ VoltIdle

SpecLoop == InitSpecLoop /\ [][NextLoop]_vars

InitSpecBin ==
    InitBin /\ SchemaIdle /\ ConvIdle /\ QaqcIdle /\ LoopIdle
    /\ UctdIdle /\ BinRunIdle
    /\ CastIdle
    /\ ThreadIdle
    /\ CndrIdle
    /\ ThermalIdle
    /\ VoltIdle

SpecBin == InitSpecBin /\ [][NextBin]_vars

\* the screen in use starts its worker: the Convert screen or the Bin screen
InitSpecWorkers ==
    /\ SchemaIdle /\ ConvIdle /\ QaqcIdle /\ LoopIdle /\ BinIdle
    /\ \/ InitUctd /\ BinRunIdle
       \/ UctdIdle /\ InitBinRun
    /\ CastIdle
    /\ ThreadIdle
    /\ CndrIdle
    /\ ThermalIdle
    /\ VoltIdle

SpecWorkers == InitSpecWorkers /\ [][NextWorkers]_vars

InitSpecCast ==
    InitCast /\ SchemaIdle /\ ConvIdle /\ QaqcIdle /\ LoopIdle /\ BinIdle
    /\ UctdIdle /\ BinRunIdle
    /\ ThreadIdle
    /\ CndrIdle
    /\ ThermalIdle
    /\ VoltIdle

SpecCast == InitSpecCast /\ [][NextCast]_vars

InitSpecThread ==
    InitThread /\ SchemaIdle /\ ConvIdle /\ QaqcIdle /\ LoopIdle /\ BinIdle
    /\ UctdIdle /\ BinRunIdle /\ CastIdle
    /\ CndrIdle
    /\ ThermalIdle
    /\ VoltIdle

SpecThread == InitSpecThread /\ [][NextThread]_vars

InitSpecCndr ==
    InitCndr /\ SchemaIdle /\ ConvIdle /\ QaqcIdle /\ LoopIdle /\ BinIdle
    /\ UctdIdle /\ BinRunIdle /\ CastIdle /\ ThreadIdle
    /\ ThermalIdle
    /\ VoltIdle

SpecCndr == InitSpecCndr /\ [][NextCndr]_vars

InitSpecThermal ==
    InitThermal /\ SchemaIdle /\ ConvIdle /\ QaqcIdle /\ LoopIdle /\ BinIdle
    /\ UctdIdle /\ BinRunIdle /\ CastIdle /\ ThreadIdle /\ CndrIdle
    /\ VoltIdle

SpecThermal == InitSpecThermal /\ [][NextThermal]_vars

InitSpecVolt ==
    InitVolt /\ SchemaIdle /\ ConvIdle /\ QaqcIdle /\ LoopIdle /\ BinIdle
    /\ UctdIdle /\ BinRunIdle /\ CastIdle /\ ThreadIdle /\ CndrIdle
    /\ ThermalIdle

SpecVolt == InitSpecVolt /\ [][NextVolt]_vars

(***************************************************************************)
(* Claims on SpecSchema                                                    *)
(***************************************************************************)
\* the quantities of a row, with the sensor each one is read from
DirectColumns ==
    [temperature |-> "Temperature",
     temperature_secondary |-> "SecondaryTemperature",
     turbidity |-> "TurbidityMeter",
     fluorescence |-> "FluoroWetlabECO_AFL_FL_",
     altimeter_height |-> "Altimeter"]

\* C3: convert_raw_to_engr_units never fails a row because a sensor is
\* missing from the configuration: for every subset of configured sensors
\* it raises nothing and returns a complete row in which every quantity
\* whose sensor is missing is None.
C3_MissingSensorYieldsNone ==
    spc = "converted" =>
        /\ ~engr.raised
        /\ \A col \in DOMAIN DirectColumns :
               DirectColumns[col] \notin DOMAIN raw_positions => engr.row[col] = None

\* C4: a raw sample without a pressure field converts to a row with
\* depth = None and pressure = None in which every column independent of
\* pressure is populated whenever its own sensor is configured.
C4_NoPressureRowPopulated ==
    (spc = "converted" /\ "Pressure" \notin DOMAIN raw_positions) =>
        /\ ~engr.raised
        /\ engr.row.depth = None
        /\ engr.row.pressure = None
        /\ \A col \in DOMAIN DirectColumns :
               DirectColumns[col] \in DOMAIN raw_positions => engr.row[col] # None
        /\ engr.row.latitude # None
        /\ engr.row.longitude # None

\* C5: for every configuration the byte widths of the schema built by
\* _get_hex_structure sum to the byte count of an SBE 9plus data line.
C5_SchemaWidthIsLineBytes ==
    spc \in {"built", "converted"} => SchemaWidth(hex_struct) = LineBytes

\* the sensors of the configuration without those marked NotInUse
InUseSensors == [x \in DOMAIN sensors \ NotInUseNames |-> sensors[x]]

\* C21: every sensor marked NotInUse is recorded in the sensor set, and
\* none of them adds a field to the schema built by _get_hex_structure:
\* the schema is the one the sensors in use give without them.
C21_NotInUseAddsNoField ==
    spc \in {"built", "converted"} =>
        /\ Cardinality(DOMAIN sensors \cap NotInUseNames)
             = Cardinality({i \in DOMAIN cfg : cfg[i] = "NotInUse"})
        /\ hex_struct = get_hex_structure(InUseSensors, SensorArraySize(cfg)).parser

\* the fields whose position the claim is about: the sensors in use and
\* the auxiliary fields of the line
AuxFields == {"NMEA Latitude", "NMEA Longitude", "Pressure Temp Comp", "Modulo Count"}

PositionedFields == (DOMAIN sensors \ NotInUseNames) \cup AuxFields

\* the raw sample the decoder builds from a line holding every byte of the
\* schema, one tag per appended value
DecodedFields == DecodeLine(hex_struct, SchemaWidth(hex_struct))

\* the value the decoder appends for a field: the field itself for a
\* frequency or auxiliary field, the voltage of its A/D channel for a
\* sensor on a voltage channel ("none" when no channel holds it)
ValueTagOf(name) ==
    IF name \in HexPartKeys THEN name
    ELSE LET vstart  == get_hex_structure(sensors, SensorArraySize(cfg)).voltage_sensor_start
             channel == sensors[name] - vstart
         IN  IF vstart # NoStart /\ channel \in 0..7
             THEN <<"V0", "V1", "V2", "V3", "V4", "V5", "V6", "V7">>[channel + 1]
             ELSE "none"

\* the 0-based index at which the decoder appends the value, -1 for none
AppendIndexOf(name) ==
    IF \E i \in DOMAIN DecodedFields : DecodedFields[i] = ValueTagOf(name)
    THEN (CHOOSE i \in DOMAIN DecodedFields : DecodedFields[i] = ValueTagOf(name)) - 1
    ELSE -1

\* C28: for every configuration, the position recorded in raw_positions
\* for each sensor in use and for each auxiliary field (NMEA latitude, NMEA
\* longitude, pressure temperature compensation, modulo count) is the index
\* at which the decoder appends that field's value in the raw sample.
C28_PositionsMatchDecoder ==
    spc \in {"built", "converted"} =>
        \A name \in PositionedFields :
            /\ name \in DOMAIN raw_positions
            /\ raw_positions[name] = AppendIndexOf(name)

(***************************************************************************)
(* Claims on SpecConv                                                      *)
(***************************************************************************)
\* the last loop iteration of run handled a well-formed cast: data file and
\* xmlcon readable, SBE 9 header with a start time, Altimeter configured
ConvertedGoodCast ==
    /\ ~last.none
    /\ last.cast = GoodCast(last.cast.lines, last.cast.newline)

\* a line cut short: hex digits only, fewer bytes than the schema consumes
Truncated(line) == line.hex /\ line.chars < 2 * LineBytes

CountTruncated(lines) == Cardinality({k \in DOMAIN lines : Truncated(lines[k])})

\* N data lines, exactly one of them truncated and the other N-1 full
OneTruncatedLine(lines) ==
    /\ CountTruncated(lines) = 1
    /\ \A k \in DOMAIN lines : Truncated(lines[k]) \/ lines[k] = FullLine

\* C1: converting a cast of N data lines, exactly one of them truncated
\* and the others valid, runs to completion, logs an error for the
\* truncated line and writes exactly N-1 data rows.
C1_TruncatedLineSkipped ==
    (ConvertedGoodCast /\ OneTruncatedLine(last.cast.lines)) =>
        /\ ~last.raised
        /\ last.acc.logged = 1
        /\ Len(last.acc.rows) = Len(last.cast.lines) - 1

\* C2: in the output of convert_hex_to_csv the scan indices strictly
\* increase and every row's date-time is the start time plus its scan
\* index (counted from the first scan of the cast) over the sampling
\* frequency, also for rows that follow a skipped line.
C2_ScanIndexAndTime ==
    (ConvertedGoodCast /\ ~last.raised) =>
        /\ \A k \in 1..(Len(last.acc.rows) - 1) :
               last.acc.rows[k].scan < last.acc.rows[k + 1].scan
        /\ \A k \in DOMAIN last.acc.rows :
               last.acc.rows[k].tick = last.acc.rows[k].scan - 1

\* C6: when the cast's xmlcon file is missing or unparseable, no data line
\* of the cast is decoded, no output is written for it, and no schema left
\* in the reader by an earlier cast is applied to its data.
C6_NoXmlconNoDecoding ==
    (~last.none /\ last.cast.data_exists /\ last.cast.xmlcon # "ok") =>
        /\ last.acc.decoded = 0
        /\ last.written = 0

\* C7: when the header of the data file names no recognised instrument
\* model, the conversion of the cast ends with a failure status, decodes
\* no row and uses no field layout.
C7_UnknownModelFailsCleanly ==
    (~last.none /\ last.cast.data_exists /\ last.cast.model = "none") =>
        /\ last.raised
        /\ convertStatus = FALSE
        /\ last.acc.decoded = 0
        /\ last.written = 0

\* a data line of full length that holds a character outside 0-9a-fA-F
NonHex(line) == ~line.hex

CountNonHex(lines) == Cardinality({k \in DOMAIN lines : NonHex(lines[k])})

\* C19: a hex data line that contains a non-hexadecimal character is
\* logged and skipped: convert_hex_to_csv runs to completion, the line adds
\* no row, and every full line of the cast, also one after it, adds its row.
C19_NonHexLineSkipped ==
    (/\ ConvertedGoodCast
     /\ CountNonHex(last.cast.lines) > 0
     /\ \A k \in DOMAIN last.cast.lines :
            NonHex(last.cast.lines[k]) \/ last.cast.lines[k] = FullLine) =>
        /\ ~last.raised
        /\ last.acc.logged = CountNonHex(last.cast.lines)
        /\ Len(last.acc.rows) = Len(last.cast.lines) - CountNonHex(last.cast.lines)

\* the data line a row of the last cast was decoded from: line_no counts
\* from the first data line, and the row's scan number is line_no + 1
LineOfRow(row) == last.cast.lines[row.scan]

\* C22: in a converted cast no row comes from a data line whose byte
\* length is not a whole multiple of the byte width of the schema (a line
\* with extra trailing bytes, for example).
C22_OddLengthLineYieldsNoRow ==
    ConvertedGoodCast =>
        \A k \in DOMAIN last.acc.rows :
            NumBytes(LineOfRow(last.acc.rows[k]))
                % SchemaWidth(CastSchema[last.cast.altimeter].parser) = 0

(***************************************************************************)
(* Claims on SpecQaqc                                                      *)
(***************************************************************************)
\* a stage was called on a cast (not on None)
StageCalled == qres.stage \notin {"off", "none"} /\ ~qres.before.none

\* the cast lacks a column the stage reads
LacksInput(stage, cols) ==
    CASE stage = "set_downcast" -> "Depth (m)" \notin cols
      [] stage = "set_vertical_velocity" ->
            ~({"Date (YYYY-MM-DD)", "Time (HH:mm:ss)", "Pressure (decibar)"} \subseteq cols)
      [] stage = "low_pass_filter_pressure_velocity" ->
            ~({"dt", "dpdt", "Pressure (decibar)"} \subseteq cols)
      [] stage = "low_pass_filter_pressure" ->
            ~({"dt", "Pressure (decibar)"} \subseteq cols)
      [] stage = "low_pass_filter_temperature_conductivity" ->
            ~({"dt", "Temperature (degC)", "Conductivity (S_per_m)"} \subseteq cols)
      [] stage = "calculate_temp_lag" ->
            ~({"dPdt", "Temperature (degC)"} \subseteq cols)
      [] stage = "correct_viscious_heating" ->
            ~({"Conductivity (S_per_m)", "Pressure (decibar)",
               "Temperature (degC)", "dPdt"} \subseteq cols)
      [] stage = "correct_loop_edit" -> "dPdt" \notin cols /\ "dpdt" \notin cols
      [] OTHER -> FALSE

\* C8: a correction stage called on a cast that lacks a column the stage
\* reads raises no error and returns that same cast unchanged.
C8_MissingColumnIsNoOp ==
    (StageCalled /\ LacksInput(qres.stage, qres.before.cols))
        => (qres.ret.kind = "df" /\ qres.ret.df = qres.before)

\* C9: every correction stage returns a cast with the same rows in the
\* same order as its input and with every column of the input still
\* present.
C9_RowsAndColumnsKept ==
    StageCalled
        => /\ qres.ret.kind = "df"
           /\ qres.ret.df.scans = qres.before.scans
           /\ Len(qres.ret.df.depth) = Len(qres.before.depth)
           /\ qres.before.cols \subseteq qres.ret.df.cols

\* the size of the depth change into row k, NaN when there is none
DepthChange(depth, k) ==
    IF k = 1 \/ depth[k] = NaN \/ depth[k - 1] = NaN THEN NaN
    ELSE IF depth[k] >= depth[k - 1] THEN depth[k] - depth[k - 1]
    ELSE depth[k - 1] - depth[k]

\* rows whose depth change from the previous row is below the threshold
ChangeBelow(depth, limit) ==
    { k \in DOMAIN depth :
        DepthChange(depth, k) # NaN /\ DepthChange(depth, k) < limit }

\* is_downcast splits the cast at a row of maximum depth among the rows
\* searched; with no such row every row is 1; no row is deleted
SplitAtDeepest(before, after, searched) ==
    /\ after.scans = before.scans
    /\ DOMAIN after.is_downcast = DOMAIN before.depth
    /\ IF searched = {}
       THEN \A k \in DOMAIN before.depth : after.is_downcast[k] = 1
       ELSE \E m \in searched :
                /\ \A j \in searched : before.depth[j] <= before.depth[m]
                /\ \A k \in DOMAIN before.depth :
                       after.is_downcast[k] = IF k <= m THEN 1 ELSE 0

DowncastSet ==
    /\ StageCalled
    /\ qres.stage = "set_downcast"
    /\ "Depth (m)" \in qres.before.cols

\* C10 (as stated): after set_downcast on a cast with a depth column,
\* is_downcast is 1 from the first row up to and including the row of
\* maximum depth, searched among the rows whose depth change from the
\* previous row is at most 100 m, and 0 on every later row; with no such
\* row it is 1 on every row.
C10_SearchWithin100 ==
    DowncastSet
        => /\ qres.ret.kind = "df"
           /\ SplitAtDeepest(qres.before, qres.ret.df,
                             ChangeBelow(qres.before.depth, max_depth_change * PerMetre + 1))

\* C10 (amended): as above, with the search among the rows whose depth
\* change from the previous row is strictly less than 100 m.
C10_SearchBelow100 ==
    DowncastSet
        => /\ qres.ret.kind = "df"
           /\ SplitAtDeepest(qres.before, qres.ret.df,
                             ChangeBelow(qres.before.depth, max_depth_change * PerMetre))

\* C10 witness: set_downcast split a cast that holds a depth change of
\* exactly 100 m, leaving rows after the deepest row searched.
C10_Witness ==
    /\ DowncastSet
    /\ qres.ret.kind = "df"
    /\ \E k \in DOMAIN qres.before.depth :
           DepthChange(qres.before.depth, k) = max_depth_change * PerMetre
    /\ \E k \in DOMAIN qres.ret.df.is_downcast : qres.ret.df.is_downcast[k] = 0
    /\ \E k \in DOMAIN qres.ret.df.is_downcast : qres.ret.df.is_downcast[k] = 1

(***************************************************************************)
(* Claims on SpecLoop                                                      *)
(***************************************************************************)
InRun(c, i) == i >= c.run /\ i < c.run + RunLength

\* C11: on a 24 Hz descending cast with exactly one run of 10 consecutive
\* samples of reversed vertical velocity, correct_loop_edit (threshold
\* 0.2, window 30 s) sets "dPdt invalid" to true on exactly those 10
\* samples and to false on every other sample.
C11_ExactlyTheRunFlagged ==
    loop_out # <<>>
        => \A i \in DOMAIN loop_df.dPdt : loop_out[i] = InRun(loop_df, i)

(***************************************************************************)
(* Claims on SpecBin                                                       *)
(***************************************************************************)
Binned == bin_out.kind = "df"

BinnedAveraged == Binned /\ bin_out.average

BinSeq == bin_out.bins

\* a row whose temperature, conductivity or pressure invalid flag is
\* True, or whose dPdt invalid flag is True when the cast has that column
Flagged(d, k) ==
    \/ "Temperature (degC) invalid" \in d.invalid[k]
    \/ "Conductivity (S_per_m) invalid" \in d.invalid[k]
    \/ "Pressure (decibar) invalid" \in d.invalid[k]
    \/ ("dPdt invalid" \in d.cols /\ "dPdt invalid" \in d.invalid[k])

\* C12: no row whose temperature, conductivity or pressure invalid flag
\* is true, or whose dPdt invalid flag is true when that column exists,
\* contributes to the averages or the scan count of a bin of the output.
C12_NoInvalidRowInBins ==
    Binned
        => \A i \in DOMAIN BinSeq : \A k \in BinSeq[i].scans :
               ~Flagged(bin_df.cast, k)

\* C12 witness: an averaged output with a bin, from a cast in which a
\* flagged row lies in the same leg and the same metre as a counted row.
C12_Witness ==
    /\ BinnedAveraged
    /\ \E i \in DOMAIN BinSeq : \E k \in BinSeq[i].scans :
         \E j \in DOMAIN bin_df.cast.depth :
            /\ Flagged(bin_df.cast, j)
            /\ bin_df.cast.depth[j] = bin_df.cast.depth[k]
            /\ bin_df.cast.is_downcast[j] = bin_df.cast.is_downcast[k]

\* the label binSize * floor(d / binSize)
FloorLabel(x, bin_size) == bin_size * (Floor(x) \div bin_size)

\* C13: for every bin size >= 1, every valid row of either leg with depth
\* d >= 0 is assigned to the bin labelled binSize * floor(d / binSize);
\* the rows at the deepest depths of the cast are always assigned.
C13_EveryValidRowAssigned ==
    Binned
        => \A k \in DOMAIN bin_df.cast.depth :
               (~Flagged(bin_df.cast, k) /\ bin_df.cast.depth[k] # NaN)
                   => \E i \in DOMAIN BinSeq :
                         /\ k \in BinSeq[i].scans
                         /\ BinSeq[i].leg = bin_df.cast.is_downcast[k]
                         /\ BinSeq[i].label
                              = FloorLabel(bin_df.cast.depth[k], bin_args.bin_size)

\* C14: with averaging on, the output lists all descent-leg bins first,
\* in strictly increasing bin depth, then all ascent-leg bins, in strictly
\* decreasing bin depth.
C14_DescentUpThenAscentDown ==
    BinnedAveraged
        => \A i, j \in DOMAIN BinSeq :
              i < j =>
                /\ BinSeq[i].leg = 0 => BinSeq[j].leg = 0
                /\ (BinSeq[i].leg = 1 /\ BinSeq[j].leg = 1)
                       => BinSeq[i].label < BinSeq[j].label
                /\ (BinSeq[i].leg = 0 /\ BinSeq[j].leg = 0)
                       => BinSeq[i].label > BinSeq[j].label

\* C14 witness: an averaged output with two descent bins followed by two
\* ascent bins.
C14_Witness ==
    /\ BinnedAveraged
    /\ \E i \in DOMAIN BinSeq :
         /\ i + 3 \in DOMAIN BinSeq
         /\ BinSeq[i].leg = 1 /\ BinSeq[i + 1].leg = 1
         /\ BinSeq[i + 2].leg = 0 /\ BinSeq[i + 3].leg = 0

\* the valid rows of a leg whose depth lies in [label, label + bin_size)
RowsInInterval(d, leg, label, bin_size) ==
    { k \in DOMAIN d.depth :
        /\ ~Flagged(d, k)
        /\ d.is_downcast[k] = leg
        /\ d.depth[k] # NaN
        /\ label * PerMetre <= d.depth[k]
        /\ d.depth[k] < (label + bin_size) * PerMetre }

\* C15: with averaging on, every bin of the output carries a scan count
\* of at least 1 that equals the number of valid rows of that leg in the
\* bin's interval; a bin with no contributing row never appears.
C15_ScanCounts ==
    BinnedAveraged
        => \A i \in DOMAIN BinSeq :
              /\ BinSeq[i].scans_per_bin >= 1
              /\ BinSeq[i].scans_per_bin
                   = Cardinality(RowsInInterval(bin_df.cast, BinSeq[i].leg,
                                                BinSeq[i].label, bin_args.bin_size))

\* C15 witness: an averaged output with a bin of two scans, from a cast
\* that leaves some bin of the leg without a scan.
C15_Witness ==
    /\ BinnedAveraged
    /\ \E i \in DOMAIN BinSeq :
         /\ BinSeq[i].scans_per_bin = 2
         /\ BinSeq[i].label > 0

\* ceil of a depth
Ceil(x) == (x + PerMetre - 1) \div PerMetre

\* a V-shaped cast was marked by set_downcast and binned with bin_size=1
\* and average=True
VBinned ==
    /\ bin_out # NotCalled
    /\ bin_df.v.max > 0
    /\ bin_df.marked_by = "set_downcast"
    /\ bin_args.bin_size = 1
    /\ bin_args.average

NumBins(leg) == Cardinality({ i \in DOMAIN BinSeq : BinSeq[i].leg = leg })

\* C16 (as stated): for a V-shaped cast, set_downcast followed by
\* bin_depths with bin size 1 and averaging on yields exactly
\* ceil(maxDepth) descent bins and the same number of ascent bins.
C16_CeilMaxDepthBins ==
    VBinned
        => /\ Binned
           /\ NumBins(1) = Ceil(bin_df.v.max)
           /\ NumBins(0) = Ceil(bin_df.v.max)

\* C16 (amended): for a V-shaped cast sampled at most 1 m apart, the
\* output has floor(maxDepth) + 1 descent bins and floor(d) + 1 ascent
\* bins, d being the depth of the first sample after the deepest one.
C16_FloorPlusOneBins ==
    (VBinned /\ bin_df.v.step <= PerMetre)
        => /\ Binned
           /\ NumBins(1) = Floor(bin_df.v.max) + 1
           /\ NumBins(0) = Floor(bin_df.v.max - bin_df.v.step) + 1

\* C16 witness: a V-shaped cast whose deepest sample lies on a whole
\* metre was marked and binned.
C16_Witness ==
    /\ VBinned
    /\ Binned
    /\ bin_df.v.step <= PerMetre
    /\ bin_df.v.max % PerMetre = 0
    /\ bin_df.v.max >= 2 * PerMetre

(***************************************************************************)
(* Claims on SpecWorkers                                                   *)
(***************************************************************************)
\* the last loop iteration of ConvertWorker.run handled an asc file that
\* is on disk and gives latitude, longitude and start date-time
ParsedGoodAsc ==
    /\ ~u_last.none
    /\ u_last.cast = AscFile(TRUE, TRUE, TRUE, TRUE, u_last.cast.lines)

\* a data line with a conductivity, pressure or temperature token that is
\* missing or is not a number
BadTokens(line) == (0 < line.tokens /\ line.tokens < 4) \/ line.nonnum # {}

\* the run ended before every file of the batch was handled, without stop
BatchAborted ==
    u_pc = "done" /\ u_is_running /\ u_file_no < u_source_files

\* C20: in UctdReader.parse_data a data line whose conductivity, pressure
\* or temperature token is non-numeric or missing adds no row, parsing goes
\* on with the next line (every other line adds its row), and the line
\* aborts neither the cast nor the remaining casts of the batch.
C20_BadTokenLineSkipped ==
    (/\ ParsedGoodAsc
     /\ \E k \in DOMAIN u_last.cast.lines : BadTokens(u_last.cast.lines[k])) =>
        /\ ~u_last.raised
        /\ { u_last.acc.rows[j].line : j \in DOMAIN u_last.acc.rows }
             = { k \in DOMAIN u_last.cast.lines : u_last.cast.lines[k] = NumericLine }
        /\ u_last.written = u_last.file
        /\ ~BatchAborted

\* the last loop iteration of BinWorker.run handled a pickle file
BinnedFile == ~b_last.none

\* the rows of the frame that pass the invalid-row filter of the path
RowsAfterFilter(f) ==
    IF f.prefix = "CTD" THEN ValidRows(f.df) ELSE UctdValidRows(f.df)

\* the frame has the columns the filter reads, and no row passes it
NoValidRows(f) ==
    /\ "Depth (m)" \in f.df.cols
    /\ RowsAfterFilter(f) = {}

DepthColumnAbsent(f) == "Depth (m)" \notin f.df.cols

\* the terminal statuses emitted for file n
StatusesOf(its, n) ==
    { its[k].status : k \in { j \in DOMAIN its : its[j].source = n } }
        \ {"Binning...", "Processing..."}

\* C17: when no valid rows remain after the invalid-row filter, or the
\* depth column is absent, BinWorker.run reports no success for that cast
\* (the failure reaches the caller) and writes no binned output for it, on
\* the CTD path and on the UCTD path.
C17_NoRowsOrNoDepthIsFailure ==
    (BinnedFile /\ (NoValidRows(b_last.f) \/ DepthColumnAbsent(b_last.f))) =>
        /\ b_last.raised
        /\ "Success" \notin StatusesOf(b_items, b_last.file)
        /\ ~b_last.written

\* the items emitted for file n, in order
ItemsOf(its, n) == SelectSeq(its, LAMBDA it : it.source = n)

InProgress == {"Binning...", "Processing..."}

\* exactly one terminal item was emitted for file n, after its in-progress
\* item
OneTerminalResult(its, n) ==
    LET mine == ItemsOf(its, n)
    IN  /\ Len(mine) = 2
        /\ mine[1].status \in InProgress
        /\ mine[2].status \notin InProgress

\* C18: when ConvertWorker.run or BinWorker.run has ended without having
\* been stopped, every cast of the batch has exactly one terminal result,
\* emitted after its in-progress status: no started cast is left with only
\* its in-progress status and no cast is left without a result because
\* another cast failed.
C18_OneTerminalResultPerCast ==
    /\ (u_pc = "done" /\ u_is_running) =>
           \A n \in 1..u_source_files : OneTerminalResult(u_items, n)
    /\ (b_pc = "done" /\ b_is_running) =>
           \A n \in 1..pickle_files : OneTerminalResult(b_items, n)

\* C27: after read_file was called for a new cast, the conversion of that
\* cast uses no latitude, longitude, start date-time or raw data of a cast
\* read before it, also when the file of the new cast does not exist: the
\* raw data extract_metadata read and the values the reader holds are those
\* of the new cast or none.
C27_NoValueOfPreviousCast ==
    ~u_last.none =>
        /\ u_last.data_of \in {0, u_last.file}
        /\ u_reader.latitude \in {0, u_last.file}
        /\ u_reader.longitude \in {0, u_last.file}
        /\ u_reader.start_date_time \in {0, u_last.file}

(***************************************************************************)
(* Claims on SpecCast                                                      *)
(***************************************************************************)
ConvertedCast == one_out # NotCalled

\* the raw sample decoded from the data line a row came from
RawSampleOfRow(row) ==
    [vals |-> DecodeLine(one_reader.parser.hex_struct,
                         NumBytes(one_cast.lines[row.scan])),
     scan |-> row.scan]

\* C24: while a cast is converted, the previous raw sample handed to the
\* converter is empty for the first emitted row and, for every later row,
\* the raw sample of the row emitted just before it; the sample of a
\* skipped line is never handed on.
C24_OneRowLookback ==
    ConvertedCast =>
        \A k \in DOMAIN one_out.acc.rows :
            one_out.acc.rows[k].prev =
                IF k = 1 THEN <<>> ELSE <<RawSampleOfRow(one_out.acc.rows[k - 1])>>

\* a cast of a full line, a line cut short and a full line was converted:
\* two rows, the second with the first row's sample as previous sample
C24_Witness ==
    /\ ConvertedCast
    /\ one_cast.lines = <<FullLine, [chars |-> 2 * LineBytes - 2, hex |-> TRUE], FullLine>>
    /\ one_out.acc.logged = 1
    /\ Len(one_out.acc.rows) = 2
    /\ one_out.acc.rows[2].scan = 3
    /\ one_out.acc.rows[2].prev = <<RawSampleOfRow(one_out.acc.rows[1])>>

\* C30: a conversion that ran to its end attempted to decode every data
\* line after the *END* marker, the last line of a file without a final
\* newline included.
C30_EveryDataLineDecoded ==
    (ConvertedCast /\ ~one_out.raised) =>
        one_out.acc.decoded = Len(one_cast.lines)

(***************************************************************************)
(* Claims on SpecThread                                                    *)
(***************************************************************************)
\* nothing is left to happen: the thread has ended, no run is executing
\* and every convertStatus was received
ThreadQuiet == t_thread = "stopped" /\ t_current = 0 /\ t_status = 0

\* C29: every call of _start_convert_thread (bin_files) makes the run of
\* the worker it created execute exactly once: no worker runs twice, and
\* once the thread has come to rest every worker created has run, also the
\* one requested while an earlier run was in progress.
C29_EachWorkerRunsOnce ==
    /\ \A w \in DOMAIN t_workers : t_workers[w].runs <= 1
    /\ ThreadQuiet => \A w \in DOMAIN t_workers : t_workers[w].runs = 1

(***************************************************************************)
(* Claims on SpecCndr                                                      *)
(***************************************************************************)
\* the loop was left after a refinement step gave an estimate below 0.0005
FellBelowMinRx == c_pc = "done" /\ c_iloop >= 1 /\ FloatLt(c_rx, MinRx)

C25_WitnessAllSteps == c_pc = "done" /\ c_iloop = MaxIter

(***************************************************************************)
(* Claims on SpecThermal                                                   *)
(***************************************************************************)
\* C23: in correct_thermal_mass the correction term of the first row is
\* zero and every correction term of the series is finite: a row whose
\* recurrence gives NaN or an infinite value holds the previous row's term.
C23_EveryCorrectionTermFinite ==
    tm_out # <<>> =>
        /\ tm_out[1] = FNum(0)
        /\ \A i \in DOMAIN tm_out : IsFin(tm_out[i])

(***************************************************************************)
(* Claims on SpecVolt                                                      *)
(***************************************************************************)
\* the two 12-bit raw values of a field (b0, b1, b2)
RawFirst(b) == 16 * b[1] + (b[2] \div 16)
RawSecond(b) == 256 * (b[2] % 16) + b[3]

\* 0 <= x <= 5 for a fraction x
WithinZeroToFive(x) == IsFin(x) /\ 0 <= x.n /\ x.n <= 5 * x.d

\* C26: for every 3-byte voltage field (b0, b1, b2) the decoder appends
\* two values, first 5 * (1 - r1 / 4095) with r1 = 16 * b0 + (b1 div 16),
\* then 5 * (1 - r2 / 4095) with r2 = 256 * (b1 mod 16) + b2; r1 and r2
\* lie in 0..4095 and both voltages in [0, 5].
C26_TwoTwelveBitVoltages ==
    v_line # <<>> =>
        /\ v_line = << Frac(5 * (4095 - RawFirst(v_bytes)), 4095),
                       Frac(5 * (4095 - RawSecond(v_bytes)), 4095) >>
        /\ RawFirst(v_bytes) \in 0..4095
        /\ RawSecond(v_bytes) \in 0..4095
        /\ \A i \in DOMAIN v_line : WithinZeroToFive(v_line[i])

\* the field 0x10 0x34 0x80 was decoded: raw values 0x103 and 0x480
C26_Witness ==
    /\ v_bytes = <<16, 52, 128>>
    /\ Len(v_line) = 2
    /\ v_line[1] = Frac(5 * (4095 - 259), 4095)
    /\ v_line[2] = Frac(5 * (4095 - 1152), 4095)

=============================================================================
